---- MODULE Spec2Model ----
(***************************************************************************)
(* Funding-target core of the bot: the money codec (funding/money.ts),     *)
(* the UK shift calendar (funding/ukTime.ts), the multi-pass OCR word      *)
(* merge (funding/ocr.ts), the "Needed" column row extraction              *)
(* (funding/parseNeeded.ts) and the /update handlers (funding/index.ts).   *)
(*                                                                         *)
(* Text is a sequence of one-character strings; an optional value          *)
(* (number | null) is the empty sequence for null and <<v>> for v.         *)
(***************************************************************************)
EXTENDS Integers, Sequences, FiniteSets, TLC

VARIABLES
    moneyIn,      \* money codec: the text handed to parseMoneyToPence
    moneyPc,      \* money codec: "pending" before parseMoneyToPence ran, then "parsed"
    moneyOut,     \* money codec: the result of the last parse (Null before it ran)
    moneyRef,     \* money codec: <<result>> for the text before its re-decoration, or <<>>
    moneyAmount,  \* money codec: <<amount>> handed to poundsToPence, in thousandths, or <<>>
    moneyPence,   \* money codec: <<pence>> whose formatPence text moneyIn is, or <<>>
    now,          \* the instant (minutes since 1970-01-01T00:00Z) new Date() yields
    shiftInfo,    \* <<ShiftInfo>> returned by getUkShiftInfo at `now`, or <<>>
    image,        \* OCR: the tokens readable on the submitted image
    allResults,   \* OCR: the word lists of the recognition passes finished so far
    ocrPc,        \* OCR: "idle", "passes", "combined" or "parsed"
    ocrWords,     \* OCR: combinedWords of recognizeImage
    parsed,       \* OCR: <<NeededParseResult>> of extractNeededValuesFromWords, or <<>>
    fundingState, \* the guild's fundingState row as <<row>>, or <<>> before the first upsert
    envEndDate,   \* env.FUNDING_END_DATE as <<text>>, or <<>> when unset
    updPc,        \* /update: "off", "idle", "loaded" (after findUnique) or "persisted"
    options,      \* /update: the FundingRecalcOptions of the invocation in flight
    locals,       \* /update: existing, currentEndDate, manualAdjustmentPence of the handler
    reply,        \* /update: <<reply>> of the last finished invocation, or <<>>
    updates,      \* number of handler invocations so far
    ledger,       \* pence added and removed by the persisted invocations since the last reset
    workerPromise,  \* engine: Null, or <<"pending">>, <<"resolved">>, <<"rejected">>
    workersCreated, \* engine: number of createWorker calls so far
    psmMode,        \* engine: <<tessedit_pageseg_mode>> set last, or Null
    calls,          \* engine: the recognizeImage call of each interaction in flight
    dateA,        \* dates: the ISO date handed to addDaysIso and daysBetweenIsoInclusive
    dateDelta,    \* dates: the deltaDays handed to addDaysIso
    dateB,        \* dates: <<addDaysIso(dateA, dateDelta)>>, or Null before the call
    dateDays      \* dates: <<result>> of daysBetweenIsoInclusive, or Null before the call

vars == <<moneyIn, moneyPc, moneyOut, moneyRef, moneyAmount, moneyPence, now, shiftInfo,
          image, allResults, ocrPc, ocrWords, parsed,
          fundingState, envEndDate, updPc, options, locals, reply, updates, ledger,
          workerPromise, workersCreated, psmMode, calls,
          dateA, dateDelta, dateB, dateDays>>
dateVars == <<dateA, dateDelta, dateB, dateDays>>
engineVars == <<workerPromise, workersCreated, psmMode, calls>>
fundingVars == <<fundingState, envEndDate, updPc, options, locals, reply, updates, ledger>>
ocrVars == <<image, allResults, ocrPc, ocrWords, parsed>>
moneyVars == <<moneyIn, moneyPc, moneyOut, moneyRef, moneyAmount, moneyPence>>
timeVars == <<now, shiftInfo>>

Null == <<>>
Some(v) == <<v>>

(***************************************************************************)
(* Generic sequence helpers (Array.prototype.filter / map / reduce).       *)
(***************************************************************************)
RECURSIVE SelectChars(_, _)
SelectChars(s, keep) ==
    IF s = <<>> THEN <<>>
    ELSE IF Head(s) \in keep THEN <<Head(s)>> \o SelectChars(Tail(s), keep)
         ELSE SelectChars(Tail(s), keep)

RECURSIVE DropChars(_, _)
DropChars(s, drop) ==
    IF s = <<>> THEN <<>>
    ELSE IF Head(s) \in drop THEN DropChars(Tail(s), drop)
         ELSE <<Head(s)>> \o DropChars(Tail(s), drop)

DigitChars == <<"0", "1", "2", "3", "4", "5", "6", "7", "8", "9">>
DigitSet == {DigitChars[i] : i \in 1..Len(DigitChars)}
DigitVal(c) == (CHOOSE i \in 1..Len(DigitChars) : DigitChars[i] = c) - 1

Whitespace == {" "}

\* Number("0123"): the decimal value of a run of digits
RECURSIVE NumberOf(_)
NumberOf(s) ==
    IF s = <<>> THEN 0
    ELSE NumberOf(SubSeq(s, 1, Len(s) - 1)) * 10 + DigitVal(s[Len(s)])

AllDigits(s) == \A i \in 1..Len(s) : s[i] \in DigitSet

\* String.prototype.trim
RECURSIVE TrimLeft(_)
TrimLeft(s) ==
    IF s # <<>> /\ Head(s) \in Whitespace THEN TrimLeft(Tail(s)) ELSE s

RECURSIVE TrimRight(_)
TrimRight(s) ==
    IF s # <<>> /\ s[Len(s)] \in Whitespace
    THEN TrimRight(SubSeq(s, 1, Len(s) - 1)) ELSE s

Trim(s) == TrimRight(TrimLeft(s))

(***************************************************************************)
(* Money codec (funding/money.ts)                                          *)
(***************************************************************************)
\* the chain of .replace calls of parseMoneyToPence, one character at a time
OcrDigitOf(c) ==
    CASE c \in {"O", "o"} -> "0"
      [] c \in {"I", "l", "1"} -> "1"
      [] c \in {"S", "5"} -> "5"
      [] c \in {"Z", "2"} -> "2"
      [] OTHER -> c

\* a deliberately broken cleaning step: thousands separators are kept
CleanMoneyTextKeepCommas(s) ==
    LET stripped == DropChars(s, {"£", "$"} \cup Whitespace)
    IN  [i \in 1..Len(stripped) |-> OcrDigitOf(stripped[i])]

CleanMoneyText(s) ==
    LET stripped == DropChars(s, {"£", "$", ","} \cup Whitespace)
    IN  [i \in 1..Len(stripped) |-> OcrDigitOf(stripped[i])]

\* index of the first "." of s, or 0
FirstDot(s) ==
    IF \E i \in 1..Len(s) : s[i] = "."
    THEN CHOOSE i \in 1..Len(s) : s[i] = "." /\ \A j \in 1..(i - 1) : s[j] # "."
    ELSE 0

\* /^(\d+)(?:\.(\d{1,3}))?$/ : <<whole, frac>> when it matches, else Null
MatchParts(dot, whole, frac) ==
    IF /\ whole # <<>>
       /\ AllDigits(whole)
       /\ (dot = 0 \/ (Len(frac) \in 1..3 /\ AllDigits(frac)))
    THEN <<whole, frac>>
    ELSE Null

MatchAtDot(s, dot) ==
    MatchParts(dot,
               IF dot = 0 THEN s ELSE SubSeq(s, 1, dot - 1),
               IF dot = 0 THEN <<>> ELSE SubSeq(s, dot + 1, Len(s)))

MoneyPatternMatch(s) == MatchAtDot(s, FirstDot(s))

\* the first two fractional digits without the padding
FirstTwoOfFrac(frac) == SubSeq(frac, 1, IF Len(frac) < 2 THEN Len(frac) ELSE 2)

\* frac.padEnd(2, '0').slice(0, 2)
PadFrac(frac) == SubSeq(frac \o <<"0", "0">>, 1, 2)

\* Number(whole) * 100 + Number(frac), or null when the pattern did not match
PenceOfMatch(m) ==
    IF m = Null THEN Null
    ELSE Some(NumberOf(m[1]) * 100 + NumberOf(PadFrac(m[2])))

ParseTrimmed(s) ==
    IF s = <<>> THEN Null ELSE PenceOfMatch(MoneyPatternMatch(CleanMoneyText(s)))

parseMoneyToPence(input) == ParseTrimmed(Trim(input))

(***************************************************************************)
(* Calendar arithmetic behind Date.UTC / getUTCFullYear / getUTCMonth /    *)
(* getUTCDate (proleptic Gregorian calendar), in whole days since          *)
(* 1970-01-01.  Intermediate values are passed as operator parameters.     *)
(***************************************************************************)
DaysFromEra(era, yoe, doy) ==
    era * 146097 + yoe * 365 + (yoe \div 4) - (yoe \div 100) + doy - 719468

DaysFromShifted(yy, mp, d) ==
    DaysFromEra(yy \div 400, yy % 400, ((153 * mp + 2) \div 5) + (d - 1))

DaysFromYm(yn, mn, d) ==
    DaysFromShifted(IF mn <= 2 THEN yn - 1 ELSE yn,
                    IF mn > 2 THEN mn - 3 ELSE mn + 9, d)

\* Date.UTC(y, m - 1, d) / 86400000; months outside 1..12 and days outside the
\* month carry over as in ECMAScript MakeDay
DaysFromCivil(y, m, d) == DaysFromYm(y + ((m - 1) \div 12), ((m - 1) % 12) + 1, d)

CivilYmd(y, m, d) == <<IF m <= 2 THEN y + 1 ELSE y, m, d>>

CivilFromMp(era, yoe, doy, mp) ==
    CivilYmd(yoe + era * 400,
             IF mp < 10 THEN mp + 3 ELSE mp - 9,
             doy - ((153 * mp + 2) \div 5) + 1)

CivilFromDoy(era, yoe, doy) == CivilFromMp(era, yoe, doy, (5 * doy + 2) \div 153)

CivilFromYoe(era, doe, yoe) ==
    CivilFromDoy(era, yoe, doe - (365 * yoe + (yoe \div 4) - (yoe \div 100)))

CivilFromDoe(era, doe) ==
    CivilFromYoe(era, doe,
        (doe - (doe \div 1460) + (doe \div 36524) - (doe \div 146096)) \div 365)

\* new Date(days * 86400000): <<getUTCFullYear, getUTCMonth + 1, getUTCDate>>
CivilFromDays(z) == CivilFromDoe((z + 719468) \div 146097, (z + 719468) % 146097)

\* String(n) for n >= 0
RECURSIVE DigitsOf(_)
DigitsOf(n) ==
    IF n < 10 THEN <<DigitChars[n + 1]>>
    ELSE DigitsOf(n \div 10) \o <<DigitChars[(n % 10) + 1]>>

\* String(n).padStart(width, '0')
RECURSIVE PadStart(_, _)
PadStart(s, width) == IF Len(s) >= width THEN s ELSE PadStart(<<"0">> \o s, width)

(***************************************************************************)
(* funding/money.ts: formatPence                                           *)
(***************************************************************************)
\* n.toLocaleString('en-US') for an integer n >= 0, given String(n)
RECURSIVE GroupThousands(_)
GroupThousands(digits) ==
    IF Len(digits) <= 3 THEN digits
    ELSE GroupThousands(SubSeq(digits, 1, Len(digits) - 3)) \o <<",">>
            \o SubSeq(digits, Len(digits) - 2, Len(digits))

toLocaleString(n) == GroupThousands(DigitsOf(n))

\* a deliberately broken cents field: String(cents) without the padding
CentsUnpadded(cents) == DigitsOf(cents)

\* String(cents).padStart(2, '0')
CentsText(cents) == PadStart(DigitsOf(cents), 2)

FormatAbs(sign, currencySymbol, abs) ==
    sign \o currencySymbol \o toLocaleString(abs \div 100) \o <<".">>
        \o CentsText(abs % 100)

formatPence(pence, currencySymbol) ==
    FormatAbs(IF pence < 0 THEN <<"-">> ELSE <<>>, currencySymbol,
              IF pence < 0 THEN -pence ELSE pence)

\* `${yyyy}-${mm}-${dd}` as built by getUkNow and addDaysIso
FormatIso(y, m, d) ==
    PadStart(DigitsOf(y), 4) \o <<"-">> \o PadStart(DigitsOf(m), 2)
        \o <<"-">> \o PadStart(DigitsOf(d), 2)

IsoOfCivil(c) == FormatIso(c[1], c[2], c[3])

\* iso.split('-'): the fields between the dashes
RECURSIVE SplitDash(_, _)
SplitDash(s, cur) ==
    IF s = <<>> THEN <<cur>>
    ELSE IF Head(s) = "-" THEN <<cur>> \o SplitDash(Tail(s), <<>>)
         ELSE SplitDash(Tail(s), cur \o <<Head(s)>>)

NumbersOf(f) == <<NumberOf(f[1]), NumberOf(f[2]), NumberOf(f[3])>>

\* iso.split('-').map((x) => Number(x)) for an all-digit YYYY-MM-DD
ParseIso(iso) == NumbersOf(SplitDash(iso, <<>>))

\* the year as Date.UTC reads it: 0..99 stand for 1900..1999
FullYear(y) == IF y \in 0..99 THEN 1900 + y ELSE y

\* Date.UTC(y, m - 1, d) of the parsed fields, in days
DaysOfParts(p) == DaysFromCivil(FullYear(p[1]), p[2], p[3])

\* a slip in the day arithmetic: the delta is applied with the wrong sign
addDaysIsoWrongSign(isoDate, deltaDays) ==
    IsoOfCivil(CivilFromDays(DaysOfParts(ParseIso(isoDate)) - deltaDays))

addDaysIso(isoDate, deltaDays) ==
    IsoOfCivil(CivilFromDays(DaysOfParts(ParseIso(isoDate)) + deltaDays))

\* the difference without the + 1 that counts both endpoints
daysBetweenIsoExclusive(startIso, endIso) ==
    DaysOfParts(ParseIso(endIso)) - DaysOfParts(ParseIso(startIso))

daysBetweenIsoInclusive(startIso, endIso) ==
    (DaysOfParts(ParseIso(endIso)) - DaysOfParts(ParseIso(startIso))) + 1

(***************************************************************************)
(* Europe/London wall clock (Intl.DateTimeFormat with timeZone             *)
(* 'Europe/London'): GMT, and BST (+60 min) from 01:00 UTC on the last     *)
(* Sunday of March until 01:00 UTC on the last Sunday of October.          *)
(* Instants are whole minutes since the epoch; seconds play no part in     *)
(* the shift arithmetic and are left out of UkNow.                         *)
(***************************************************************************)
MinutesPerDay == 24 * 60

\* 0 = Sunday; 1970-01-01 was a Thursday
DayOfWeek(days) == (days + 4) % 7

SundayOnOrBefore(days) == days - DayOfWeek(days)

LastSunday(y, m, lastDay) == SundayOnOrBefore(DaysFromCivil(y, m, lastDay))

OffsetInYear(t, y) ==
    IF /\ t >= LastSunday(y, 3, 31) * MinutesPerDay + 60
       /\ t < LastSunday(y, 10, 31) * MinutesPerDay + 60
    THEN 60 ELSE 0

UkOffsetMinutes(t) == OffsetInYear(t, CivilFromDays(t \div MinutesPerDay)[1])

UkNowOf(c, minuteOfDay) ==
    [isoDate |-> IsoOfCivil(c),
     year |-> c[1], month |-> c[2], day |-> c[3],
     hour |-> minuteOfDay \div 60, minute |-> minuteOfDay % 60]

UkNowAt(local) == UkNowOf(CivilFromDays(local \div MinutesPerDay), local % MinutesPerDay)

getUkNow(t) == UkNowAt(t + UkOffsetMinutes(t))

\* the shift-day boundary moved to midnight
ShiftDayStartsAtMidnight(ukNow, mins) == ukNow.isoDate

shiftDayIsoDateOf(ukNow, mins) ==
    IF mins < 3 * 60 THEN addDaysIso(ukNow.isoDate, -1) ELSE ukNow.isoDate

\* the Day shift starting one minute late
CurrentShiftLateDay(minsInShiftDay) ==
    IF minsInShiftDay >= 3 * 60 /\ minsInShiftDay <= 11 * 60 THEN "Morning"
    ELSE IF minsInShiftDay > 11 * 60 /\ minsInShiftDay < 19 * 60 THEN "Day"
    ELSE "Night"

currentShiftOf(minsInShiftDay) ==
    IF minsInShiftDay >= 3 * 60 /\ minsInShiftDay < 11 * 60 THEN "Morning"
    ELSE IF minsInShiftDay >= 11 * 60 /\ minsInShiftDay < 19 * 60 THEN "Day"
    ELSE "Night"

\* the current shift left out of the remaining list
RemainingAfterCurrent(currentShift) ==
    IF currentShift = "Morning" THEN <<"Day", "Night">>
    ELSE IF currentShift = "Day" THEN <<"Night">>
    ELSE <<>>

remainingShiftsTodayOf(currentShift) ==
    IF currentShift = "Morning" THEN <<"Morning", "Day", "Night">>
    ELSE IF currentShift = "Day" THEN <<"Day", "Night">>
    ELSE <<"Night">>

ShiftInfoWith(ukNow, shiftDayIsoDate, currentShift) ==
    [ukNow |-> ukNow,
     shiftDayIsoDate |-> shiftDayIsoDate,
     currentShift |-> currentShift,
     remainingShiftsToday |-> remainingShiftsTodayOf(currentShift)]

\* the small hours counted as the Night of the calendar date they fall on
ShiftInfoOnCalendarDate(ukNow, mins) ==
    ShiftInfoWith(ukNow, ukNow.isoDate,
                  currentShiftOf(IF mins < 3 * 60 THEN mins + 24 * 60 ELSE mins))

ShiftInfoAt(ukNow, mins) ==
    ShiftInfoWith(ukNow,
                  shiftDayIsoDateOf(ukNow, mins),
                  currentShiftOf(IF mins < 3 * 60 THEN mins + 24 * 60 ELSE mins))

ShiftInfoOf(ukNow) == ShiftInfoAt(ukNow, ukNow.hour * 60 + ukNow.minute)

getUkShiftInfo(t) == ShiftInfoOf(getUkNow(t))

(***************************************************************************)
(* OCR words (funding/ocr.ts OcrWord): [text, confidence, x0, y0, x1, y1], *)
(* the bbox fields flattened.  Horizontal centres are half-pixels, so all  *)
(* column arithmetic is carried out on doubled coordinates (suffix "2").   *)
(***************************************************************************)
Word(text, confidence, x0, y0, x1, y1) ==
    [text |-> text, confidence |-> confidence, x0 |-> x0, y0 |-> y0, x1 |-> x1, y1 |-> y1]

UpperChars == <<"A", "B", "C", "D", "E", "F", "G", "H", "I", "J", "K", "L", "M",
                "N", "O", "P", "Q", "R", "S", "T", "U", "V", "W", "X", "Y", "Z">>
LowerChars == <<"a", "b", "c", "d", "e", "f", "g", "h", "i", "j", "k", "l", "m",
                "n", "o", "p", "q", "r", "s", "t", "u", "v", "w", "x", "y", "z">>

LowerOfChar(c) ==
    IF \E i \in 1..26 : UpperChars[i] = c
    THEN LowerChars[CHOOSE i \in 1..26 : UpperChars[i] = c]
    ELSE c

toLowerCase(s) == [i \in 1..Len(s) |-> LowerOfChar(s[i])]

\* String.prototype.includes for a non-empty needle
Includes(s, sub) ==
    \E i \in 1..(Len(s) - Len(sub) + 1) : SubSeq(s, i, i + Len(sub) - 1) = sub

\* texts.join(' ')
RECURSIVE JoinSpace(_)
JoinSpace(texts) ==
    IF texts = <<>> THEN <<>>
    ELSE IF Len(texts) = 1 THEN texts[1]
    ELSE texts[1] \o <<" ">> \o JoinSpace(Tail(texts))

\* .replace(/\s+/g, ' ')
RECURSIVE CollapseSpaces(_)
CollapseSpaces(s) ==
    IF Len(s) < 2 THEN s
    ELSE IF s[1] \in Whitespace /\ s[2] \in Whitespace THEN CollapseSpaces(Tail(s))
    ELSE <<s[1]>> \o CollapseSpaces(Tail(s))

centerX2(w) == w.x0 + w.x1

\* the filter predicates of parseRowsFromLines, on doubled coordinates
KeepWord(w, kind, lo2, hi2) ==
    CASE kind = "name" -> centerX2(w) < lo2 - 6 /\ Trim(w.text) # <<>>
      [] kind = "column" -> centerX2(w) >= lo2 /\ centerX2(w) <= hi2
      [] kind = "right" -> centerX2(w) > hi2 /\ centerX2(w) <= hi2 + 100
      [] kind = "below" -> Trim(w.text) # <<>> /\ w.y0 >= lo2

RECURSIVE SelectWords(_, _, _, _)
SelectWords(ws, kind, lo2, hi2) ==
    IF ws = <<>> THEN <<>>
    ELSE IF KeepWord(Head(ws), kind, lo2, hi2)
         THEN <<Head(ws)>> \o SelectWords(Tail(ws), kind, lo2, hi2)
         ELSE SelectWords(Tail(ws), kind, lo2, hi2)

TextsOf(ws) == [i \in 1..Len(ws) |-> ws[i].text]

RECURSIVE SumOf(_)
SumOf(ns) == IF ns = <<>> THEN 0 ELSE Head(ns) + SumOf(Tail(ns))

\* Array.prototype.sort((a, b) => a[k] - b[k]): a stable ascending sort
RECURSIVE InsertByKey(_, _, _)
InsertByKey(sorted, w, k) ==
    IF sorted = <<>> THEN <<w>>
    ELSE IF w[k] < sorted[1][k] THEN <<w>> \o sorted
    ELSE <<sorted[1]>> \o InsertByKey(Tail(sorted), w, k)

RECURSIVE SortByKey(_, _)
SortByKey(ws, k) ==
    IF ws = <<>> THEN <<>>
    ELSE InsertByKey(SortByKey(SubSeq(ws, 1, Len(ws) - 1), k), ws[Len(ws)], k)

(***************************************************************************)
(* Header detection and line clustering (funding/parseNeeded.ts)           *)
(***************************************************************************)
NormalizeKeep ==
    {LowerChars[i] : i \in 1..26} \cup DigitSet \cup {"£", "$", ".", ","} \cup Whitespace

normalizeToken(s) == SelectChars(toLowerCase(Trim(s)), NormalizeKeep)

OcrLetterOf(c) ==
    CASE c = "0" -> "o" [] c = "1" -> "i" [] c = "5" -> "s" [] OTHER -> c

\* the tests of isLikelyNeededHeader on the normalized, space-free text
HeaderLike(normalized) ==
    \/ Includes(normalized, <<"n", "e", "e", "d">>)
    \/ Includes([i \in 1..Len(normalized) |-> OcrLetterOf(normalized[i])],
                <<"n", "e", "e", "d">>)
    \/ /\ Len(normalized) >= 4 /\ Len(normalized) <= 7
       /\ \E i \in 1..Len(normalized) : normalized[i] = "n"
       /\ \E i \in 1..Len(normalized) : normalized[i] \in {"d", "0"}

isLikelyNeededHeader(w) == HeaderLike(DropChars(normalizeToken(w.text), Whitespace))

\* |y - mean(y0 of line)| <= yTolerance, on integers
FitsLine(line, y, yTolerance) ==
    y * Len(line) - SumOf([i \in 1..Len(line) |-> line[i].y0]) \in
        (0 - yTolerance * Len(line))..(yTolerance * Len(line))

RECURSIVE ClusterFold(_, _, _)
ClusterFold(sorted, lines, yTolerance) ==
    IF sorted = <<>> THEN lines
    ELSE IF lines = <<>> THEN ClusterFold(Tail(sorted), <<<<Head(sorted)>>>>, yTolerance)
    ELSE IF FitsLine(lines[Len(lines)], Head(sorted).y0, yTolerance)
         THEN ClusterFold(Tail(sorted),
                          [lines EXCEPT ![Len(lines)] = Append(@, Head(sorted))],
                          yTolerance)
         ELSE ClusterFold(Tail(sorted), Append(lines, <<Head(sorted)>>), yTolerance)

SortLines(lines) == [i \in 1..Len(lines) |-> SortByKey(lines[i], "x0")]

clusterByLine(words, yTolerance) ==
    SortLines(ClusterFold(SortByKey(words, "y0"), <<>>, yTolerance))

(***************************************************************************)
(* parseRowsFromLines: one row per line that has a name left of the column *)
(***************************************************************************)
\* texts of the words left of the column, trimmed, empty ones dropped
NameTexts(line, colX0x2) ==
    [i \in 1..Len(SelectWords(line, "name", colX0x2, 0)) |->
        Trim(SelectWords(line, "name", colX0x2, 0)[i].text)]

NameOf(nameTexts) == Trim(CollapseSpaces(JoinSpace(nameTexts)))

NeededWords(line, colX0x2, colX1x2) == SelectWords(line, "column", colX0x2, colX1x2)

RightWords(line, colX1x2) == SelectWords(line, "right", 0, colX1x2)

OrElse(a, b) == IF a # Null THEN a ELSE b

\* a deliberately wrong scan: the first word that parses, from the left
ScanLeftToRight(ws, i) ==
    IF \E k \in 1..i : parseMoneyToPence(ws[k].text) # Null
    THEN parseMoneyToPence(ws[CHOOSE k \in 1..i :
            /\ parseMoneyToPence(ws[k].text) # Null
            /\ \A j \in 1..(k - 1) : parseMoneyToPence(ws[j].text) = Null].text)
    ELSE Null

\* Strategy 2: each word alone, right to left
RECURSIVE ScanRightToLeft(_, _)
ScanRightToLeft(ws, i) ==
    IF i < 1 THEN Null
    ELSE OrElse(parseMoneyToPence(ws[i].text), ScanRightToLeft(ws, i - 1))

JoinedAmount(ws) == parseMoneyToPence(JoinSpace(TextsOf(ws)))

\* Strategies 3 and 4: the last two, then the first two words joined
LastTwoAmount(ws) ==
    IF Len(ws) >= 2 THEN JoinedAmount(SubSeq(ws, Len(ws) - 1, Len(ws))) ELSE Null

FirstTwoAmount(ws) ==
    IF Len(ws) >= 2 THEN JoinedAmount(SubSeq(ws, 1, 2)) ELSE Null

ColumnAmount(allNeededWords) ==
    IF allNeededWords = <<>> THEN Null
    ELSE OrElse(JoinedAmount(allNeededWords),
         OrElse(ScanRightToLeft(allNeededWords, Len(allNeededWords)),
         OrElse(LastTwoAmount(allNeededWords), FirstTwoAmount(allNeededWords))))

\* Math.round(mean * 10) / 10, kept in tenths
ConfidenceTenths(confs) ==
    IF confs = <<>> THEN 0 ELSE (20 * SumOf(confs) + Len(confs)) \div (2 * Len(confs))

\* confidenceWords is neededWords, or else nameWords: the latter are strings,
\* whose .confidence is undefined and counts as 0
RowConfidence(neededWords, nameTexts) ==
    IF neededWords # <<>>
    THEN ConfidenceTenths([i \in 1..Len(neededWords) |-> neededWords[i].confidence])
    ELSE ConfidenceTenths([i \in 1..Len(nameTexts) |-> 0])

Row(name, neededPence, confidence) ==
    [name |-> name, neededPence |-> neededPence, confidence |-> confidence]

RowOfLine(line, nameTexts, neededWords, rightWords) ==
    Row(NameOf(nameTexts),
        OrElse(ColumnAmount(neededWords \o rightWords), JoinedAmount(line)),
        RowConfidence(neededWords, nameTexts))

RowsOfLine(line, colX0x2, colX1x2) ==
    IF NameOf(NameTexts(line, colX0x2)) = <<>> THEN <<>>
    ELSE <<RowOfLine(line,
                     NameTexts(line, colX0x2),
                     NeededWords(line, colX0x2, colX1x2),
                     RightWords(line, colX1x2))>>

RECURSIVE parseRowsFromLines(_, _, _)
parseRowsFromLines(allLines, colX0x2, colX1x2) ==
    IF allLines = <<>> THEN <<>>
    ELSE RowsOfLine(Head(allLines), colX0x2, colX1x2)
            \o parseRowsFromLines(Tail(allLines), colX0x2, colX1x2)

(***************************************************************************)
(* Insertion-ordered Map<string, T> as a sequence of <<key, value>> pairs  *)
(***************************************************************************)
MapIndex(m, key) ==
    IF \E i \in 1..Len(m) : m[i][1] = key
    THEN CHOOSE i \in 1..Len(m) : m[i][1] = key
    ELSE 0

MapSetAt(m, i, key, val) ==
    IF i = 0 THEN Append(m, <<key, val>>) ELSE [m EXCEPT ![i] = <<key, val>>]

MapValues(m) == [i \in 1..Len(m) |-> m[i][2]]

(***************************************************************************)
(* extractNeededValuesFromWords (funding/parseNeeded.ts)                   *)
(***************************************************************************)
\* candidates.sort((a, b) => b.confidence - a.confidence)[0]: the earliest
\* candidate of the highest confidence; <<>> when there is none
FirstOfMaxConfidence(cands) ==
    IF cands = <<>> THEN Null
    ELSE Some(cands[CHOOSE i \in 1..Len(cands) :
                  /\ \A j \in 1..Len(cands) : cands[j].confidence <= cands[i].confidence
                  /\ \A j \in 1..(i - 1) : cands[j].confidence < cands[i].confidence])

RECURSIVE HeaderCandidates(_)
HeaderCandidates(words) ==
    IF words = <<>> THEN <<>>
    ELSE IF isLikelyNeededHeader(Head(words))
         THEN <<Head(words)>> \o HeaderCandidates(Tail(words))
         ELSE HeaderCandidates(Tail(words))

ParseResult(rows, values) ==
    [rows |-> rows, neededPenceValues |-> values, totalPence |-> SumOf(values)]

\* the amounts with a null amount counted as a value of 0
RECURSIVE NullAmountsAsZero(_)
NullAmountsAsZero(rows) ==
    IF rows = <<>> THEN <<>>
    ELSE IF Head(rows).neededPence # Null
         THEN <<Head(rows).neededPence[1]>> \o NullAmountsAsZero(Tail(rows))
         ELSE <<0>> \o NullAmountsAsZero(Tail(rows))

\* dedupedRows.filter((r) => r.neededPence !== null).map((r) => r.neededPence!)
RECURSIVE NonNullAmounts(_)
NonNullAmounts(rows) ==
    IF rows = <<>> THEN <<>>
    ELSE IF Head(rows).neededPence # Null
         THEN <<Head(rows).neededPence[1]>> \o NonNullAmounts(Tail(rows))
         ELSE NonNullAmounts(Tail(rows))

ResultOf(dedupedRows) == ParseResult(dedupedRows, NonNullAmounts(dedupedRows))

\* row.name.toLowerCase().trim().replace(/\s+/g, ' ')
NormalizedName(name) == CollapseSpaces(Trim(toLowerCase(name)))

\* `${normalizedName}|${row.neededPence ?? 'null'}`
RowKey(row) == <<NormalizedName(row.name), row.neededPence>>

KeepsExisting(existing, row) ==
    ~ \/ row.confidence > existing.confidence
      \/ /\ row.confidence = existing.confidence
         /\ row.neededPence # Null /\ existing.neededPence = Null

\* !existing || the row is preferred to the existing entry, existing being
\* the entry at index i of the map (none when i = 0)
ReplacesAt(rowMap, i, row) == i = 0 \/ ~KeepsExisting(rowMap[i][2], row)

ReplacesExisting(rowMap, row) == ReplacesAt(rowMap, MapIndex(rowMap, RowKey(row)), row)

RECURSIVE RowMapFold(_, _)
RowMapFold(allRows, rowMap) ==
    IF allRows = <<>> THEN rowMap
    ELSE IF ReplacesExisting(rowMap, Head(allRows))
         THEN RowMapFold(Tail(allRows),
                         MapSetAt(rowMap, MapIndex(rowMap, RowKey(Head(allRows))),
                                  RowKey(Head(allRows)), Head(allRows)))
         ELSE RowMapFold(Tail(allRows), rowMap)

\* name1.includes(name2) || name2.includes(name1) || |len1 - len2| <= 2
SimilarNames(name1, name2) ==
    /\ Len(name1) > 0 /\ Len(name2) > 0
    /\ \/ Includes(name1, name2)
       \/ Includes(name2, name1)
       \/ Len(name1) - Len(name2) \in -2..2

\* r.neededPence === row.neededPence || (both are non-null)
AmountsMergeable(a, b) == a = b \/ (a # Null /\ b # Null)

\* indices of the rowMap entries that the filter of the entry at i keeps
SimilarIndices(rowMap, i) ==
    {k \in 1..Len(rowMap) :
        \/ k = i
        \/ /\ SimilarNames(Trim(toLowerCase(rowMap[i][2].name)),
                           Trim(toLowerCase(rowMap[k][2].name)))
           /\ AmountsMergeable(rowMap[k][2].neededPence, rowMap[i][2].neededPence)}

\* the comparator of the bestRow sort returns a negative number
RowBefore(a, b) ==
    \/ a.confidence > b.confidence
    \/ /\ a.confidence = b.confidence
       /\ \/ a.neededPence # Null /\ b.neededPence = Null
          \/ /\ (a.neededPence = Null) = (b.neededPence = Null)
             /\ Len(a.name) < Len(b.name)

\* [0] of the stable sort of the rows at the indices idx
BestIndex(rowMap, idx) ==
    CHOOSE i \in idx :
        /\ \A j \in idx : ~RowBefore(rowMap[j][2], rowMap[i][2])
        /\ \A k \in idx : k < i => \E j \in idx : RowBefore(rowMap[j][2], rowMap[k][2])

RECURSIVE FuzzyMergeFold(_, _, _, _)
FuzzyMergeFold(rowMap, i, processed, finalRows) ==
    IF i > Len(rowMap) THEN finalRows
    ELSE IF i \in processed THEN FuzzyMergeFold(rowMap, i + 1, processed, finalRows)
    ELSE FuzzyMergeFold(rowMap, i + 1,
                        processed \cup SimilarIndices(rowMap, i),
                        Append(finalRows, rowMap[BestIndex(rowMap, SimilarIndices(rowMap, i))][2]))

DedupeRows(allRows) == FuzzyMergeFold(RowMapFold(allRows, <<>>), 1, {}, <<>>)

\* the five parsing passes below the header
HeaderPathRows(below, colX0x2, colX1x2) ==
    parseRowsFromLines(clusterByLine(below, 15), colX0x2, colX1x2)
        \o parseRowsFromLines(clusterByLine(below, 20), colX0x2, colX1x2)
        \o parseRowsFromLines(clusterByLine(below, 10), colX0x2, colX1x2)
        \o parseRowsFromLines(clusterByLine(below, 15), colX0x2 - 40, colX1x2 + 40)
        \o parseRowsFromLines(clusterByLine(below, 12), colX0x2 + 20, colX1x2 - 20)

\* pad = Math.round(headerWidth * 1.2)
HeaderPad(headerWidth) == (12 * headerWidth + 5) \div 10

Max2(a, b) == IF a >= b THEN a ELSE b
Min2(a, b) == IF a <= b THEN a ELSE b

HeaderPathWith(words, header, pad) ==
    ResultOf(DedupeRows(
        HeaderPathRows(SelectWords(words, "below", header.y1 + 4, 0),
                       2 * (Min2(header.x0, header.x1) - pad),
                       2 * (Max2(header.x0, header.x1) + pad))))

HeaderPath(words, header) ==
    HeaderPathWith(words, header, HeaderPad(Max2(10, header.x1 - header.x0)))

\* ---- fallback: no header found
RECURSIVE MoneyWords(_)
MoneyWords(words) ==
    IF words = <<>> THEN <<>>
    ELSE IF parseMoneyToPence(Head(words).text) # Null
         THEN <<Head(words)>> \o MoneyWords(Tail(words))
         ELSE MoneyWords(Tail(words))

\* Math.round(cx / bucketSize) * bucketSize with bucketSize = 40
BucketKey(w) == ((centerX2(w) + 40) \div 80) * 40

BucketCount(moneyWords, key) ==
    Cardinality({i \in 1..Len(moneyWords) : BucketKey(moneyWords[i]) = key})

\* [...buckets.entries()].sort((a, b) => b[1].count - a[1].count)[0][0]:
\* the key of the first-inserted bucket among the fullest ones
BestBucketKey(moneyWords) ==
    BucketKey(moneyWords[CHOOSE i \in 1..Len(moneyWords) :
        /\ \A j \in 1..Len(moneyWords) :
              BucketCount(moneyWords, BucketKey(moneyWords[j]))
                  <= BucketCount(moneyWords, BucketKey(moneyWords[i]))
        /\ \A j \in 1..(i - 1) :
              BucketCount(moneyWords, BucketKey(moneyWords[j]))
                  < BucketCount(moneyWords, BucketKey(moneyWords[i]))])

RECURSIVE BucketXs(_, _)
BucketXs(moneyWords, key) ==
    IF moneyWords = <<>> THEN <<>>
    ELSE IF BucketKey(Head(moneyWords)) = key
         THEN <<<<centerX2(Head(moneyWords))>>>> \o BucketXs(Tail(moneyWords), key)
         ELSE BucketXs(Tail(moneyWords), key)

\* xs.sort((a, b) => a - b)[Math.floor(xs.length / 2)], doubled
MedianCx2(xs) == SortByKey(xs, 1)[(Len(xs) \div 2) + 1][1]

\* De-dupe by (name, needed): the first row of each key is kept
RECURSIVE DedupeByKey(_, _)
DedupeByKey(rows, seen) ==
    IF rows = <<>> THEN <<>>
    ELSE IF <<toLowerCase(Head(rows).name), Head(rows).neededPence>> \in seen
         THEN DedupeByKey(Tail(rows), seen)
         ELSE <<Head(rows)>> \o
              DedupeByKey(Tail(rows),
                          seen \cup {<<toLowerCase(Head(rows).name), Head(rows).neededPence>>})

FallbackRows(words, medianCx2) ==
    parseRowsFromLines(clusterByLine(SelectWords(words, "below", 0, 0), 15),
                       medianCx2 - 240, medianCx2 + 240)

FallbackWith(words, moneyWords) ==
    IF Len(moneyWords) < 2 THEN ParseResult(<<>>, <<>>)
    ELSE ResultOf(DedupeByKey(
            FallbackRows(words, MedianCx2(BucketXs(moneyWords, BestBucketKey(moneyWords)))),
            {}))

FallbackPath(words) == FallbackWith(words, MoneyWords(words))

\* debug.header: { text: header.text, bbox: header.bbox }; absent on the
\* fallback path
HeaderDebug(header) ==
    IF header = Null THEN Null
    ELSE Some([text |-> header[1].text, x0 |-> header[1].x0, y0 |-> header[1].y0,
               x1 |-> header[1].x1, y1 |-> header[1].y1])

WithDebug(result, header) ==
    [rows |-> result.rows, neededPenceValues |-> result.neededPenceValues,
     totalPence |-> result.totalPence, header |-> HeaderDebug(header)]

ExtractWithHeader(words, header) ==
    WithDebug(IF header = Null THEN FallbackPath(words) ELSE HeaderPath(words, header[1]),
              header)

extractNeededValuesFromWords(words) ==
    ExtractWithHeader(words, FirstOfMaxConfidence(HeaderCandidates(words)))

(***************************************************************************)
(* recognizeImageWithPSM and recognizeImage (funding/ocr.ts)               *)
(***************************************************************************)
\* the OcrWord made of a word reported by the engine
OcrWordOf(w) == Word(Trim(w.text), w.confidence, w.x0, w.y0, w.x1, w.y1)

\* the filter over the words of a pass: not empty, and of confidence 25 or
\* more or with a digit or a currency sign
KeepsOcrWord(w) ==
    /\ Len(w.text) > 0
    /\ \/ w.confidence >= 25
       \/ \E i \in 1..Len(w.text) : w.text[i] \in DigitSet \cup {"$", "£"}

\* the words of one pass, given the words the engine reports
RECURSIVE recognizeImageWithPSM(_)
recognizeImageWithPSM(dataWords) ==
    IF dataWords = <<>> THEN <<>>
    ELSE IF KeepsOcrWord(OcrWordOf(Head(dataWords)))
         THEN <<OcrWordOf(Head(dataWords))>> \o recognizeImageWithPSM(Tail(dataWords))
         ELSE recognizeImageWithPSM(Tail(dataWords))

RECURSIVE Flatten(_)
Flatten(seqs) == IF seqs = <<>> THEN <<>> ELSE Head(seqs) \o Flatten(Tail(seqs))

\* Math.round(v / n) for v >= 0
RoundDiv(v, n) == (2 * v + n) \div (2 * n)

WordKey(w) == <<RoundDiv(w.x0, 10), RoundDiv(w.y0, 10), toLowerCase(w.text)>>

\* a deliberately wrong rule: the word of the later pass always wins
ReplacesAlwaysAt(wordMap, i, word) == TRUE

\* !existing || word.confidence > existing.confidence, existing being the
\* entry at index i of the map (none when i = 0)
BetterThanAt(wordMap, i, word) ==
    i = 0 \/ word.confidence > wordMap[i][2].confidence

BetterThanExisting(wordMap, word) ==
    BetterThanAt(wordMap, MapIndex(wordMap, WordKey(word)), word)

\* the first loop: the most confident word of every key, keys in the order of
\* their first appearance
RECURSIVE BestPerKey(_, _)
BestPerKey(words, wordMap) ==
    IF words = <<>> THEN wordMap
    ELSE IF BetterThanExisting(wordMap, Head(words))
         THEN BestPerKey(Tail(words),
                         MapSetAt(wordMap, MapIndex(wordMap, WordKey(Head(words))),
                                  WordKey(Head(words)), Head(words)))
         ELSE BestPerKey(Tail(words), wordMap)

\* the second loop with the existingAtY test left out
NothingAtY(wordMap, word) == FALSE

ExistingAtY(wordMap, word) ==
    \E i \in 1..Len(wordMap) :
        /\ wordMap[i][2].y0 - word.y0 \in -9..9
        /\ toLowerCase(wordMap[i][2].text) = toLowerCase(word.text)

PosKey(w) == <<RoundDiv(w.x0, 10), RoundDiv(w.y0, 10), toLowerCase(w.text), w.x0>>

UniqueKey(w) == <<toLowerCase(w.text), RoundDiv(w.y0, 5)>>

\* the second loop: a word whose text and row were not seen before is added
\* under its position key unless the map holds the same text near its row
RECURSIVE AddUniqueWords(_, _, _)
AddUniqueWords(words, uniqueWords, wordMap) ==
    IF words = <<>> THEN wordMap
    ELSE IF UniqueKey(Head(words)) \in uniqueWords
         THEN AddUniqueWords(Tail(words), uniqueWords, wordMap)
         ELSE IF ExistingAtY(wordMap, Head(words))
              THEN AddUniqueWords(Tail(words), uniqueWords \cup {UniqueKey(Head(words))},
                                  wordMap)
              ELSE AddUniqueWords(Tail(words), uniqueWords \cup {UniqueKey(Head(words))},
                                  MapSetAt(wordMap, MapIndex(wordMap, PosKey(Head(words))),
                                           PosKey(Head(words)), Head(words)))

\* combinedWords of recognizeImage for the passes' word lists
combineWords(results) ==
    MapValues(AddUniqueWords(Flatten(results), {}, BestPerKey(Flatten(results), <<>>)))

(***************************************************************************)
(* The /update handler (funding/index.ts, handleUpdateFundingCommand)      *)
(***************************************************************************)
\* Math.round(amount * 100); the amount is given in thousandths of a major
\* unit, so that amounts with a fraction of a penny can be told apart
poundsToPence(amountMilli) == (amountMilli + 5) \div 10

Options(endDate, daysLeftOverride, addAmount, removeAmount, resetAdjustment) ==
    [endDate |-> endDate, daysLeftOverride |-> daysLeftOverride,
     addAmount |-> addAmount, removeAmount |-> removeAmount,
     resetAdjustment |-> resetAdjustment]

\* options.addAmount && options.removeAmount: both given and neither is 0
BothAddAndRemove(opts) ==
    /\ opts.addAmount # Null /\ opts.addAmount # Some(0)
    /\ opts.removeAmount # Null /\ opts.removeAmount # Some(0)

\* /^\d{4}-\d{2}-\d{2}$/.test(iso)
isValidIsoDate(iso) ==
    /\ Len(iso) = 10
    /\ \A i \in 1..10 : IF i \in {5, 8} THEN iso[i] = "-" ELSE iso[i] \in DigitSet

\* d && isValidIsoDate(d) ? d : null
ValidOrNull(d) == IF d # Null /\ isValidIsoDate(d[1]) THEN d ELSE Null

ExistingEndDate(existing) == IF existing = <<>> THEN Null ELSE existing[1].endDate

CurrentEndDate(opts, existing, env) ==
    OrElse(ValidOrNull(opts.endDate),
           OrElse(ValidOrNull(ExistingEndDate(existing)), ValidOrNull(env)))

\* existing?.manualAdjustmentPence ?? 0
ExistingAdjustment(existing) ==
    IF existing = <<>> THEN 0 ELSE existing[1].manualAdjustmentPence

ApplyReset(adj, opts) == IF opts.resetAdjustment THEN 0 ELSE adj

\* an add that raises the accumulator instead of lowering it
ApplyAddRaising(adj, opts) ==
    IF opts.addAmount # Null THEN adj + poundsToPence(opts.addAmount[1]) ELSE adj

ApplyAdd(adj, opts) ==
    IF opts.addAmount # Null THEN adj - poundsToPence(opts.addAmount[1]) ELSE adj

ApplyRemove(adj, opts) ==
    IF opts.removeAmount # Null THEN adj + poundsToPence(opts.removeAmount[1]) ELSE adj

AdjustedPence(existing, opts) ==
    ApplyRemove(ApplyAdd(ApplyReset(ExistingAdjustment(existing), opts), opts), opts)

FundingRow(endDate, manualAdjustmentPence, result) ==
    [endDate |-> endDate, manualAdjustmentPence |-> manualAdjustmentPence,
     lastParsedNeededValues |-> result.neededPenceValues,
     lastParsedTotalPence |-> result.totalPence]

\* recognizeImage when each of its passes reads all the tokens of the image
recognizeImage(img) ==
    combineWords(<<recognizeImageWithPSM(img), recognizeImageWithPSM(img),
                   recognizeImageWithPSM(img)>>)

\* a count from the civil date of the UK clock instead of the shift-day date
DaysToDeadlineFromCivilDate(info, endDate) ==
    Max2(1, daysBetweenIsoInclusive(info.ukNow.isoDate, endDate))

\* Math.max(1, daysBetweenIsoInclusive(shiftInfo.shiftDayIsoDate, currentEndDate))
DaysToDeadline(info, endDate) ==
    Max2(1, daysBetweenIsoInclusive(info.shiftDayIsoDate, endDate))

\* daysLeft with a missing end date counted as one day
DaysLeftOrOne(opts, currentEndDate, info) ==
    IF opts.daysLeftOverride # Null /\ opts.daysLeftOverride[1] > 0
    THEN opts.daysLeftOverride
    ELSE IF currentEndDate # Null
         THEN Some(DaysToDeadline(info, currentEndDate[1]))
         ELSE Some(1)

\* daysLeft, Null standing for null
DaysLeft(opts, currentEndDate, info) ==
    IF opts.daysLeftOverride # Null /\ opts.daysLeftOverride[1] > 0
    THEN opts.daysLeftOverride
    ELSE IF currentEndDate # Null
         THEN Some(DaysToDeadline(info, currentEndDate[1]))
         ELSE Null

\* a division that rounds down
FloorDiv(a, b) == a \div b

\* Math.ceil(a / b) for b > 0
CeilDiv(a, b) == 0 - ((0 - a) \div b)

TargetsReply(remainingTotalPence, daysLeft, dailyTargetPence, info) ==
    [kind |-> "targets",
     remainingTotalPence |-> remainingTotalPence,
     daysLeft |-> daysLeft,
     dailyTargetPence |-> dailyTargetPence,
     perShiftPence |-> CeilDiv(dailyTargetPence, Len(info.remainingShiftsToday)),
     shiftInfo |-> info]

TargetsFor(remainingTotalPence, daysLeft, info) ==
    TargetsReply(remainingTotalPence, daysLeft, CeilDiv(remainingTotalPence, daysLeft), info)

ReplyWith(remainingTotalPence, daysLeft, info) ==
    IF daysLeft = Null THEN [kind |-> "missingEndDate"]
    ELSE TargetsFor(remainingTotalPence, daysLeft[1], info)

ReplyOf(opts, loc, totalPence, info) ==
    ReplyWith(totalPence + loc.manualAdjustmentPence,
              DaysLeft(opts, loc.currentEndDate, info), info)

(***************************************************************************)
(* Specification SpecMoney: parseMoneyToPence over bounded texts.          *)
(* A text is parsed; it may then be re-decorated once (a currency symbol   *)
(* or a thousands separator inserted or removed) and parsed again.         *)
(***************************************************************************)
MaxTextLen == 3

MoneyAlphabet == {"$", ",", ".", "1", "9", "O", "o", "S", "Z", "a", " "}
MoneySymbols == {"$", "£", ","}

RECURSIVE TextsUpTo(_)
TextsUpTo(n) ==
    IF n = 0 THEN {<<>>}
    ELSE LET shorter == TextsUpTo(n - 1)
         IN  shorter \cup {Append(t, c) : t \in {u \in shorter : Len(u) = n - 1},
                                        c \in MoneyAlphabet}

TxtDollar1234_56 == <<"$", "1", ",", "2", "3", "4", ".", "5", "6">>
Txt1234_56 == <<"1", "2", "3", "4", ".", "5", "6">>
TxtPound99 == <<"£", "9", "9">>
TxtAbc == <<"a", "b", "c">>

\* texts with one to four fractional digits, with letters that are read as
\* digits, and texts that miss the whole part, the fraction or have two dots
FractionTexts ==
    { <<"1", ".", "9">>, <<"1", ".", "9", "9">>, <<"1", ".", "9", "9", "9">>,
      <<"1", ".", "9", "9", "9", "9">>, <<"I", "l", ".", "S", "5">>,
      <<"Z", "2", ".", "O", "o", "1">>, <<".", "5">>, <<"5", ".">>,
      <<"1", ".", "2", ".", "3">> }

MoneyInputs ==
    TextsUpTo(MaxTextLen) \cup {TxtDollar1234_56, Txt1234_56, TxtPound99, TxtAbc}
        \cup FractionTexts

InsertAt(s, i, c) == SubSeq(s, 1, i) \o <<c>> \o SubSeq(s, i + 1, Len(s))
RemoveAt(s, i) == SubSeq(s, 1, i - 1) \o SubSeq(s, i + 1, Len(s))

Decorations(s) ==
    {InsertAt(s, i, c) : i \in 0..Len(s), c \in MoneySymbols}
        \cup {RemoveAt(s, i) : i \in {j \in 1..Len(s) : s[j] \in MoneySymbols}}
        \cup {DropChars(s, MoneySymbols)}

TimeIdle == now = 0 /\ shiftInfo = <<>>

OcrIdle ==
    /\ image = <<>> /\ allResults = <<>> /\ ocrPc = "idle"
    /\ ocrWords = <<>> /\ parsed = <<>>

FundingIdle ==
    /\ fundingState = <<>> /\ envEndDate = <<>> /\ updPc = "off"
    /\ options = <<>> /\ locals = <<>> /\ reply = <<>>
    /\ updates = 0 /\ ledger = <<>>

DateIdle == dateA = <<>> /\ dateDelta = 0 /\ dateB = <<>> /\ dateDays = <<>>

EngineIdle ==
    /\ workerPromise = <<>> /\ workersCreated = 0 /\ psmMode = <<>> /\ calls = <<>>

\* amounts with at most two fractional digits, in thousandths: every amount
\* from -MaxAmountCents to MaxAmountCents hundredths, and a few larger ones
\* (12.5, 999.99, 1000, 1234.56, -1234.56, 1000000, 1234567.89)
MaxAmountCents == 300

Amounts ==
    { 10 * h : h \in (-MaxAmountCents)..MaxAmountCents }
        \cup { 12500, 999990, 1000000, 1234560, -1234560, 1000000000, 1234567890 }

InitMoney ==
    /\ \/ /\ moneyIn \in MoneyInputs
          /\ moneyPc = "pending"
          /\ moneyAmount = Null
       \/ /\ moneyIn = <<>>
          /\ moneyPc = "amount"
          /\ moneyAmount \in { Some(a) : a \in Amounts }
    /\ moneyPence = Null
    /\ moneyOut = Null
    /\ moneyRef = <<>>
    /\ TimeIdle
    /\ OcrIdle
    /\ FundingIdle
    /\ EngineIdle
    /\ DateIdle

\* formatPence(poundsToPence(amount), '$')
FormatAmount ==
    /\ moneyPc = "amount"
    /\ moneyPence' = Some(poundsToPence(moneyAmount[1]))
    /\ moneyIn' = formatPence(poundsToPence(moneyAmount[1]), <<"$">>)
    /\ moneyPc' = "pending"
    /\ UNCHANGED <<moneyOut, moneyRef, moneyAmount, timeVars, ocrVars, fundingVars,
                   engineVars, dateVars>>

ParseAmount ==
    /\ moneyPc = "pending"
    /\ moneyOut' = parseMoneyToPence(moneyIn)
    /\ moneyPc' = "parsed"
    /\ UNCHANGED <<moneyIn, moneyRef, moneyAmount, moneyPence, timeVars, ocrVars,
                   fundingVars, engineVars, dateVars>>

Redecorate ==
    /\ moneyPc = "parsed"
    /\ moneyRef = <<>>
    /\ \E t \in Decorations(moneyIn) \ {moneyIn} :
          /\ moneyIn' = t
          /\ moneyRef' = <<moneyOut>>
          /\ moneyOut' = Null
          /\ moneyPc' = "pending"
    /\ moneyAmount' = Null
    /\ moneyPence' = Null
    /\ UNCHANGED <<timeVars, ocrVars, fundingVars, engineVars, dateVars>>

NextMoney == FormatAmount \/ ParseAmount \/ Redecorate

SpecMoney == InitMoney /\ [][NextMoney]_vars

(***************************************************************************)
(* Specification SpecTime: the wall clock runs minute by minute from a few *)
(* instants next to year, leap-day, month and daylight-saving boundaries,  *)
(* and getUkShiftInfo(new Date()) is called at any of them.                *)
(***************************************************************************)
MaxTickMinutes == 1560

InstantUtc(y, m, d, h, mi) == DaysFromCivil(y, m, d) * MinutesPerDay + h * 60 + mi

StartInstants ==
    { InstantUtc(2023, 12, 31, 22, 0),   \* into New Year's Day (GMT)
      InstantUtc(2024, 2, 28, 22, 0),    \* into the leap day
      InstantUtc(2024, 2, 29, 22, 0),    \* into 1 March of a leap year
      InstantUtc(2024, 3, 30, 22, 0),    \* into the start of BST (31 March 2024)
      InstantUtc(2024, 6, 30, 21, 0),    \* into 1 July under BST
      InstantUtc(2024, 10, 26, 21, 0) }  \* into the end of BST (27 October 2024)

MoneyIdle ==
    /\ moneyIn = <<>> /\ moneyPc = "idle" /\ moneyOut = Null /\ moneyRef = <<>>
    /\ moneyAmount = <<>> /\ moneyPence = <<>>

InitTime ==
    /\ now \in StartInstants
    /\ shiftInfo = <<>>
    /\ MoneyIdle
    /\ OcrIdle
    /\ FundingIdle
    /\ EngineIdle
    /\ DateIdle

\* const shiftInfo = getUkShiftInfo(new Date())
ReadShift ==
    /\ shiftInfo = <<>>
    /\ shiftInfo' = <<getUkShiftInfo(now)>>
    /\ UNCHANGED <<now, moneyVars, ocrVars, fundingVars, engineVars, dateVars>>

\* a minute passes; the ShiftInfo of the call that returned is gone
Tick ==
    /\ \E s \in StartInstants : s <= now /\ now < s + MaxTickMinutes
    /\ now' = now + 1
    /\ shiftInfo' = <<>>
    /\ UNCHANGED <<moneyVars, ocrVars, fundingVars, engineVars, dateVars>>

NextTime == ReadShift \/ Tick

SpecTime == InitTime /\ [][NextTime]_vars

(***************************************************************************)
(* Specification SpecParse: a screenshot of a funding table goes through   *)
(* recognizeImage (three recognition passes, combined) and then through    *)
(* extractNeededValuesFromWords.  The image is a table of up to MaxRows    *)
(* rows, with or without a "Needed" header above its amount column; every  *)
(* pass reads either all of its tokens or none of them.                    *)
(***************************************************************************)
MaxRows == 2

TxtNeeded == <<"N", "e", "e", "d", "e", "d">>
TxtAlice == <<"A", "l", "i", "c", "e">>
TxtBob == <<"B", "o", "b">>
TxtRobert == <<"R", "o", "b", "e", "r", "t">>
TxtDollar50 == <<"$", "5", "0", ".", "0", "0">>
TxtDollar0 == <<"$", "0">>
TxtNotApplicable == <<"n", "/", "a">>

TableNames == {TxtAlice, TxtBob, TxtRobert}
TableCells == {TxtDollar50, TxtDollar0, TxtNotApplicable}

\* the tables: an optional header and the <<name, cell>> pairs of the rows
TableRowsUpTo(n) == UNION {[1..k -> TableNames \X TableCells] : k \in 0..n}
Tables == {<<h, rs>> : h \in BOOLEAN, rs \in TableRowsUpTo(MaxRows)}

\* the header token above the amount column
HeaderToken == Word(TxtNeeded, 90, 200, 10, 260, 30)

\* the tokens of table row i: the name on the left, the cell in the column
RowY(i) == 50 + 40 * (i - 1)
RowTokens(i, name, cell) ==
    << Word(name, 90, 10, RowY(i), 10 + 10 * Len(name), RowY(i) + 20),
       Word(cell, 90, 200, RowY(i), 200 + 10 * Len(cell), RowY(i) + 20) >>

RECURSIVE TableRowTokens(_, _)
TableRowTokens(rs, i) ==
    IF i > Len(rs) THEN <<>>
    ELSE RowTokens(i, rs[i][1], rs[i][2]) \o TableRowTokens(rs, i + 1)

ImageOf(table) ==
    (IF table[1] THEN <<HeaderToken>> ELSE <<>>) \o TableRowTokens(table[2], 1)

\* images whose tokens differ in confidence: a row with two tokens in the
\* amount column, a row that is a name alone, and a table with such a row
NameToken(i, name, confidence) ==
    Word(name, confidence, 10, RowY(i), 10 + 10 * Len(name), RowY(i) + 20)

ImgTwoValueTokens ==
    << HeaderToken, NameToken(1, TxtAlice, 80),
       Word(TxtDollar50, 90, 200, RowY(1), 260, RowY(1) + 20),
       Word(TxtDollar0, 60, 270, RowY(1), 290, RowY(1) + 20) >>

ImgNameOnly == << HeaderToken, NameToken(1, TxtAlice, 80) >>

ImgNameOnlyRow ==
    << HeaderToken, NameToken(1, TxtAlice, 80),
       Word(TxtDollar50, 90, 200, RowY(1), 260, RowY(1) + 20),
       NameToken(2, TxtRobert, 70) >>

ConfidenceImages == {ImgTwoValueTokens, ImgNameOnly, ImgNameOnlyRow}

\* images with two header candidates above one table row: "Need" and
\* "Needed" of equal confidence in either order, and of different confidence
TxtNeed == <<"N", "e", "e", "d">>
ShortHeader(confidence) == Word(TxtNeed, confidence, 120, 12, 160, 30)
LongHeader(confidence) == Word(TxtNeeded, confidence, 200, 10, 260, 30)

\* images whose row is settled by a given strategy: three cells of which
\* the joined text does not parse (the scan from the right finds "$50.00",
\* a scan from the left would find "$0"), and a line that is "12" alone,
\* read as money by the whole-line strategy
Txt12 == <<"1", "2">>

ImgScanFromRight ==
    << HeaderToken, NameToken(1, TxtAlice, 90),
       Word(TxtDollar0, 90, 200, RowY(1), 220, RowY(1) + 20),
       Word(TxtNotApplicable, 90, 230, RowY(1), 260, RowY(1) + 20),
       Word(TxtDollar50, 90, 270, RowY(1), 330, RowY(1) + 20) >>

ImgWholeLine == << HeaderToken, NameToken(1, Txt12, 90) >>

StrategyImages == {ImgScanFromRight, ImgWholeLine}

\* an image with tokens of confidence below 25: a name of five letters, an
\* amount, a single letter, and a token without text
TxtX == <<"x">>

ImgLowConfidence ==
    << HeaderToken, NameToken(1, TxtAlice, 10),
       Word(TxtDollar50, 10, 200, RowY(1), 260, RowY(1) + 20),
       NameToken(2, TxtX, 10),
       NameToken(3, TxtBob, 25),
       Word(TxtDollar0, 24, 200, RowY(3), 220, RowY(3) + 20),
       Word(<<>>, 90, 200, RowY(4), 200, RowY(4) + 20) >>

\* an image that the passes read differently: as it is, moved by a few
\* pixels and with less confidence, or without its last token
ImgJitter == <<HeaderToken>> \o RowTokens(1, TxtAlice, TxtDollar50)

Moved(w, dx, dy, dc) ==
    Word(w.text, w.confidence + dc, w.x0 + dx, w.y0 + dy, w.x1 + dx, w.y1 + dy)

\* what the engine may report for an image in one pass: nothing or all of
\* its tokens, and for ImgJitter also the variants above
Readings(img) ==
    {<<>>, img}
        \cup (IF img = ImgJitter
              THEN { [i \in 1..Len(img) |-> Moved(img[i], 2, 3, -20)],
                     [i \in 1..Len(img) |-> Moved(img[i], -3, -2, 5)],
                     SubSeq(img, 1, Len(img) - 1) }
              ELSE {})

HeaderImages ==
    { <<ShortHeader(90), LongHeader(90)>> \o RowTokens(1, TxtAlice, TxtDollar50),
      <<LongHeader(90), ShortHeader(90)>> \o RowTokens(1, TxtAlice, TxtDollar50),
      <<ShortHeader(90), LongHeader(80)>> \o RowTokens(1, TxtAlice, TxtDollar50),
      <<ShortHeader(70), LongHeader(80)>> \o RowTokens(1, TxtAlice, TxtDollar50) }

PassCount == 3

InitParse ==
    /\ image \in {ImageOf(table) : table \in Tables} \cup ConfidenceImages
                    \cup HeaderImages \cup StrategyImages
                    \cup {ImgLowConfidence, ImgJitter}
    /\ allResults = <<>>
    /\ ocrPc = "passes"
    /\ ocrWords = <<>>
    /\ parsed = <<>>
    /\ MoneyIdle
    /\ TimeIdle
    /\ FundingIdle
    /\ EngineIdle
    /\ DateIdle

\* recognizeImageWithPSM: one pass over the image
RecognizePass ==
    /\ ocrPc = "passes"
    /\ Len(allResults) < PassCount
    /\ \E dataWords \in Readings(image) :
          allResults' = Append(allResults, recognizeImageWithPSM(dataWords))
    /\ UNCHANGED <<image, ocrPc, ocrWords, parsed, moneyVars, timeVars, fundingVars, engineVars,
                   dateVars>>

\* recognizeImage after Promise.all: the passes' words are combined
CombinePasses ==
    /\ ocrPc = "passes"
    /\ Len(allResults) = PassCount
    /\ ocrWords' = combineWords(allResults)
    /\ ocrPc' = "combined"
    /\ UNCHANGED <<image, allResults, parsed, moneyVars, timeVars, fundingVars, engineVars,
                   dateVars>>

\* const parsed = extractNeededValuesFromWords(ocr.words)
ExtractNeeded ==
    /\ ocrPc = "combined"
    /\ parsed' = <<extractNeededValuesFromWords(ocrWords)>>
    /\ ocrPc' = "parsed"
    /\ UNCHANGED <<image, allResults, ocrWords, moneyVars, timeVars, fundingVars, engineVars,
                   dateVars>>

NextParse == RecognizePass \/ CombinePasses \/ ExtractNeeded

SpecParse == InitParse /\ [][NextParse]_vars

(***************************************************************************)
(* Specification SpecFunding: staff run /update with an image and options, *)
(* one invocation at a time, and images are posted in the funding channel, *)
(* MaxUpdates invocations in all.  The /update handler is cut at its       *)
(* awaits: findUnique, upsert, editReply.                                  *)
(***************************************************************************)
MaxUpdates == 2

TxtDollar100 == <<"$", "1", "0", "0", ".", "0", "0">>
Txt12_50 == <<"$", "1", "2", ".", "5", "0">>

\* images whose tables parse to 10000 and 1250
FundingImages ==
    { ImageOf(<<TRUE, <<<<TxtBob, TxtDollar100>>>>>>),
      ImageOf(<<TRUE, <<<<TxtBob, Txt12_50>>>>>>) }

Iso(y, m, d) == FormatIso(y, m, d)

\* 1 July 2024 (BST) at 01:30, 05:00 and 12:00 UK time
FundingInstants ==
    { InstantUtc(2024, 7, 1, 0, 30), InstantUtc(2024, 7, 1, 4, 0),
      InstantUtc(2024, 7, 1, 11, 0) }

EndDateOptions == {Null, Some(Iso(2024, 7, 3))}
EnvEndDates == {Null, Some(Iso(2024, 6, 30))}

\* days_left has setMinValue(1); add and remove have setMinValue(0);
\* the amounts are 25.00 and 10.125
DaysLeftOptions == {Null, Some(4)}
AddOptions == {Null, Some(25000)}
RemoveOptions == {Null, Some(10125)}

\* an end_date that is not of the form YYYY-MM-DD
TxtShortDate == <<"2", "0", "2", "4", "-", "7", "-", "3">>

OptionSets ==
    { Options(e, dl, a, r, rs) :
        e \in EndDateOptions, dl \in DaysLeftOptions, a \in AddOptions,
        r \in RemoveOptions, rs \in BOOLEAN }
    \cup { Options(Some(TxtShortDate), dl, Null, Null, FALSE) : dl \in DaysLeftOptions }

Ledger(added, removed) == [added |-> added, removed |-> removed]

PenceOf(amount) == IF amount = Null THEN 0 ELSE poundsToPence(amount[1])

LedgerAfter(l, opts) ==
    IF opts.resetAdjustment
    THEN Ledger(PenceOf(opts.addAmount), PenceOf(opts.removeAmount))
    ELSE Ledger(l.added + PenceOf(opts.addAmount), l.removed + PenceOf(opts.removeAmount))

InitFunding ==
    /\ fundingState = <<>>
    /\ envEndDate \in EnvEndDates
    /\ updPc = "idle"
    /\ options = <<>>
    /\ locals = <<>>
    /\ reply = <<>>
    /\ updates = 0
    /\ ledger = Ledger(0, 0)
    /\ now \in FundingInstants
    /\ shiftInfo = <<>>
    /\ image = <<>> /\ allResults = <<>> /\ ocrPc = "idle"
    /\ ocrWords = <<>> /\ parsed = <<>>
    /\ MoneyIdle
    /\ EngineIdle
    /\ DateIdle

\* the wall clock moves on between invocations
ClockAdvance ==
    /\ updPc = "idle"
    /\ \E t \in FundingInstants : t > now /\ now' = t
    /\ UNCHANGED <<shiftInfo, moneyVars, ocrVars, fundingVars, engineVars, dateVars>>

\* /update with both add and remove: refused before anything is loaded
RejectUpdate ==
    /\ updPc = "idle"
    /\ updates < MaxUpdates
    /\ \E opts \in OptionSets :
          /\ BothAddAndRemove(opts)
          /\ options' = opts
    /\ reply' = <<[kind |-> "rejected"]>>
    /\ updates' = updates + 1
    /\ UNCHANGED <<fundingState, envEndDate, updPc, locals, ledger,
                   moneyVars, timeVars, ocrVars, engineVars, dateVars>>

\* /update up to the manual adjustment: findUnique, currentEndDate,
\* manualAdjustmentPence
LoadState ==
    /\ updPc = "idle"
    /\ updates < MaxUpdates
    /\ \E opts \in OptionSets, img \in FundingImages :
          /\ ~BothAddAndRemove(opts)
          /\ options' = opts
          /\ image' = img
          /\ locals' = [existing |-> fundingState,
                        currentEndDate |-> CurrentEndDate(opts, fundingState, envEndDate),
                        manualAdjustmentPence |-> AdjustedPence(fundingState, opts)]
    /\ updPc' = "loaded"
    /\ updates' = updates + 1
    /\ reply' = <<>>
    /\ UNCHANGED <<fundingState, envEndDate, ledger, allResults, ocrPc, ocrWords,
                   parsed, moneyVars, timeVars, engineVars, dateVars>>

\* recognizeImage, extractNeededValuesFromWords and the upsert
PersistUpdate ==
    /\ updPc = "loaded"
    /\ ocrWords' = recognizeImage(image)
    /\ parsed' = <<extractNeededValuesFromWords(ocrWords')>>
    /\ fundingState' = <<FundingRow(locals.currentEndDate, locals.manualAdjustmentPence,
                                    parsed'[1])>>
    /\ ledger' = LedgerAfter(ledger, options)
    /\ updPc' = "persisted"
    /\ UNCHANGED <<envEndDate, options, locals, reply, updates, image, allResults,
                   ocrPc, moneyVars, timeVars, engineVars, dateVars>>

\* await recognizeImage(buffer) throws: the handler ends with the engine's
\* error before it has parsed or written anything
OcrFailure ==
    /\ updPc = "loaded"
    /\ reply' = <<[kind |-> "error", error |-> <<"recognize", "11">>]>>
    /\ updPc' = "idle"
    /\ UNCHANGED <<fundingState, envEndDate, options, locals, updates, ledger,
                   moneyVars, timeVars, ocrVars, engineVars, dateVars>>

\* remainingTotalPence, getUkShiftInfo(new Date()), daysLeft and the reply
ReplyUpdate ==
    /\ updPc = "persisted"
    /\ shiftInfo' = <<getUkShiftInfo(now)>>
    /\ reply' = <<ReplyOf(options, locals, parsed[1].totalPence, shiftInfo'[1])>>
    /\ updPc' = "idle"
    /\ UNCHANGED <<now, fundingState, envEndDate, options, locals, updates, ledger,
                   moneyVars, ocrVars, engineVars, dateVars>>

\* handleFundingChannelMessage: an image posted in the funding channel
\* replaces the parsed values, leaves the accumulator alone and is answered
\* with a summary of the rows
ChannelImage ==
    /\ updPc = "idle"
    /\ updates < MaxUpdates
    /\ updates' = updates + 1
    /\ \E img \in FundingImages :
          /\ image' = img
          /\ ocrWords' = recognizeImage(img)
    /\ parsed' = <<extractNeededValuesFromWords(ocrWords')>>
    /\ fundingState' =
          <<FundingRow(IF fundingState = <<>> THEN ValidOrNull(envEndDate)
                                             ELSE fundingState[1].endDate,
                       ExistingAdjustment(fundingState), parsed'[1])>>
    /\ reply' = <<[kind |-> "summary", rowsFound |-> Len(parsed'[1].rows),
                    totalPence |-> parsed'[1].totalPence]>>
    /\ UNCHANGED <<envEndDate, updPc, options, locals, ledger,
                   allResults, ocrPc, moneyVars, timeVars, engineVars, dateVars>>

NextFunding ==
    ClockAdvance \/ RejectUpdate \/ LoadState \/ PersistUpdate \/ ReplyUpdate
        \/ ChannelImage \/ OcrFailure

SpecFunding == InitFunding /\ [][NextFunding]_vars

(***************************************************************************)
(* Specification SpecEngine: recognizeImage calls that share the OCR       *)
(* engine (funding/ocr.ts).  A call starts its three passes together; a    *)
(* pass awaits the worker, sets its page segmentation mode on it and then  *)
(* recognizes the image, and every await is a point where the passes of    *)
(* the same or of another call may run.  Promise.all joins the passes; the *)
(* /update handler then parses, upserts and replies.                       *)
(***************************************************************************)
MaxCalls == 2

\* the interactions that may be handled at the same time
Interactions == {"a", "b"}

\* passes of recognizeImage: sparse, uniform, single-column
passes == <<"11", "6", "4">>

EngineImage == ImageOf(<<TRUE, <<<<TxtBob, TxtDollar50>>>>>>)

\* what recognizeImage and extractNeededValuesFromWords make of the image when
\* every pass reads all of its tokens
EngineWords == recognizeImage(EngineImage)
EngineResult == extractNeededValuesFromWords(EngineWords)

\* getWorker without its test of workerPromise
CreatesWorkerAlways(promise) == TRUE

\* getWorker that initializes again after a failed initialization
CreatesWorkerAfterFailure(promise) == promise = Null \/ promise = Some("rejected")

\* if (!workerPromise)
CreatesWorker(promise) == promise = Null

\* getWorker: the worker promise and the number of workers after one call
getWorker(w) ==
    IF CreatesWorker(w.promise)
    THEN [promise |-> Some("pending"), created |-> w.created + 1]
    ELSE w

\* passes.map(pass => recognizeImageWithPSM(buffer, pass.mode)): every pass
\* runs up to its await of getWorker()
StartPasses(w) == getWorker(getWorker(getWorker(w)))

Pass(pc, error) == [pc |-> pc, error |-> error]

\* an invocation of the handler: manualAdjustmentPence is its local variable
Call(pc, id, manualAdjustmentPence, pass, rejected, words, result, outcome) ==
    [pc |-> pc, id |-> id, manualAdjustmentPence |-> manualAdjustmentPence,
     pass |-> pass, rejected |-> rejected, words |-> words,
     parsed |-> result, outcome |-> outcome]

IdleCall == Call("idle", 0, 0, <<>>, Null, Null, Null, Null)

\* every pass of the call has settled
Settled(call) == \A p \in 1..Len(call.pass) : call.pass[p].pc \in {"done", "threw"}

\* a join that waits for the passes to settle, whatever their outcome
AllSettled(call) == Settled(call)

\* Promise.all fulfils when every pass has fulfilled
AllFulfilled(call) == \A p \in 1..Len(call.pass) : call.pass[p].pc = "done"

\* Promise.all rejects with the first rejection
FirstRejection(call, error) == IF call.rejected = Null THEN Some(error) ELSE call.rejected

\* the handler's upsert; lastImageMessageId is the invocation's placeholder id
UpsertRow(id, endDate, manualAdjustmentPence, result) ==
    [lastImageMessageId |-> id,
     row |-> FundingRow(endDate, manualAdjustmentPence, result)]

\* interaction a carries add: 25, interaction b remove: 10.125
OptionsOf(c) ==
    IF c = "a" THEN Options(Null, Null, Some(25000), Null, FALSE)
    ELSE Options(Null, Null, Null, Some(10125), FALSE)

\* the row that findUnique returns, Null standing for null
ExistingRow == IF fundingState = <<>> THEN Null ELSE Some(fundingState[1].row)

EngineLocals(call) ==
    [existing |-> Null, currentEndDate |-> envEndDate,
     manualAdjustmentPence |-> call.manualAdjustmentPence]

InitEngine ==
    /\ workerPromise = Null
    /\ workersCreated = 0
    /\ psmMode = Null
    /\ calls = [c \in Interactions |-> IdleCall]
    /\ image = EngineImage
    /\ allResults = <<>> /\ ocrPc = "idle" /\ ocrWords = <<>> /\ parsed = <<>>
    /\ fundingState = <<>>
    /\ envEndDate = Some(Iso(2024, 7, 3))
    /\ updPc = "off" /\ options = <<>> /\ locals = <<>> /\ reply = <<>>
    /\ updates = 0
    /\ ledger = Ledger(0, 0)
    /\ now = InstantUtc(2024, 7, 1, 11, 0)
    /\ shiftInfo = <<>>
    /\ MoneyIdle
    /\ DateIdle

\* the invocations that have loaded the state and not yet called recognizeImage
Loading == {c \in Interactions : calls[c].pc = "loaded"}

\* the handler of interaction c up to its manual adjustment: findUnique and
\* manualAdjustmentPence
LoadCall(c) ==
    /\ calls[c].pc \in {"idle", "replied", "threw"}
    /\ Settled(calls[c])
    /\ updates + Cardinality(Loading) < MaxCalls
    /\ calls' = [calls EXCEPT ![c] =
                    Call("loaded", 0, AdjustedPence(ExistingRow, OptionsOf(c)),
                         <<>>, Null, Null, Null, Null)]
    /\ UNCHANGED <<workerPromise, workersCreated, psmMode, fundingVars, moneyVars,
                   timeVars, ocrVars, dateVars>>

\* recognizeImage(buffer) is called for interaction c
StartCall(c) ==
    /\ calls[c].pc = "loaded"
    /\ updates' = updates + 1
    /\ workerPromise' = StartPasses([promise |-> workerPromise,
                                     created |-> workersCreated]).promise
    /\ workersCreated' = StartPasses([promise |-> workerPromise,
                                      created |-> workersCreated]).created
    /\ calls' = [calls EXCEPT ![c] =
                    Call("passes", updates + 1, calls[c].manualAdjustmentPence,
                         [p \in 1..Len(passes) |-> Pass("getWorker", Null)],
                         Null, Null, Null, Null)]
    /\ UNCHANGED <<psmMode, fundingState, envEndDate, updPc, options, locals, reply,
                   ledger, moneyVars, timeVars, ocrVars, dateVars>>

\* createWorker('eng') and the base setParameters have finished
WorkerReady ==
    /\ workerPromise = Some("pending")
    /\ workerPromise' = Some("resolved")
    /\ UNCHANGED <<workersCreated, psmMode, calls, fundingVars, moneyVars, timeVars,
                   ocrVars, dateVars>>

\* createWorker('eng') or the base setParameters has thrown
WorkerFails ==
    /\ workerPromise = Some("pending")
    /\ workerPromise' = Some("rejected")
    /\ UNCHANGED <<workersCreated, psmMode, calls, fundingVars, moneyVars, timeVars,
                   ocrVars, dateVars>>

\* await getWorker() of pass p throws the initialization error
PassWithoutWorker(c, p) ==
    /\ p \in 1..Len(calls[c].pass)
    /\ calls[c].pass[p].pc = "getWorker"
    /\ workerPromise = Some("rejected")
    /\ calls' = [calls EXCEPT ![c].pass[p] = Pass("threw", <<"init">>),
                              ![c].rejected = FirstRejection(calls[c], <<"init">>)]
    /\ UNCHANGED <<workerPromise, workersCreated, psmMode, fundingVars, moneyVars,
                   timeVars, ocrVars, dateVars>>

\* worker.setParameters({ tessedit_pageseg_mode: psmMode }) of pass p
SetPassMode(c, p) ==
    /\ p \in 1..Len(calls[c].pass)
    /\ calls[c].pass[p].pc = "getWorker"
    /\ workerPromise = Some("resolved")
    /\ psmMode' = Some(passes[p])
    /\ calls' = [calls EXCEPT ![c].pass[p].pc = "recognize"]
    /\ UNCHANGED <<workerPromise, workersCreated, fundingVars, moneyVars, timeVars,
                   ocrVars, dateVars>>

\* worker.recognize(buffer) of pass p, under the mode the engine is in
RecognizePassOf(c, p) ==
    /\ p \in 1..Len(calls[c].pass)
    /\ calls[c].pass[p].pc = "recognize"
    /\ \/ calls' = [calls EXCEPT ![c].pass[p] = Pass("done", Null)]
       \/ calls' = [calls EXCEPT
                       ![c].pass[p] = Pass("threw", <<"recognize", passes[p]>>),
                       ![c].rejected = FirstRejection(calls[c], <<"recognize", passes[p]>>)]
    /\ UNCHANGED <<workerPromise, workersCreated, psmMode, fundingVars, moneyVars,
                   timeVars, ocrVars, dateVars>>

\* Promise.all has fulfilled: the words of the passes are combined
CombineCall(c) ==
    /\ calls[c].pc = "passes"
    /\ AllFulfilled(calls[c])
    /\ calls' = [calls EXCEPT ![c].pc = "combined",
                              ![c].words = Some(EngineWords)]
    /\ UNCHANGED <<workerPromise, workersCreated, psmMode, fundingVars, moneyVars,
                   timeVars, ocrVars, dateVars>>

\* Promise.all has rejected: recognizeImage throws and so does the handler
ThrowCall(c) ==
    /\ calls[c].pc = "passes"
    /\ calls[c].rejected # Null
    /\ calls' = [calls EXCEPT ![c].pc = "threw",
                              ![c].outcome = Some([kind |-> "error",
                                                   error |-> calls[c].rejected[1]])]
    /\ UNCHANGED <<workerPromise, workersCreated, psmMode, fundingVars, moneyVars,
                   timeVars, ocrVars, dateVars>>

\* extractNeededValuesFromWords(ocr.words) and the upsert
PersistCall(c) ==
    /\ calls[c].pc = "combined"
    /\ calls' = [calls EXCEPT
                    ![c].pc = "persisted",
                    ![c].parsed = Some(EngineResult)]
    /\ fundingState' = <<UpsertRow(calls[c].id, envEndDate,
                                   calls[c].manualAdjustmentPence, calls'[c].parsed[1])>>
    /\ ledger' = LedgerAfter(ledger, OptionsOf(c))
    /\ UNCHANGED <<workerPromise, workersCreated, psmMode, envEndDate, updPc, options,
                   locals, reply, updates, moneyVars, timeVars, ocrVars, dateVars>>

\* the targets are computed and sent
ReplyCall(c) ==
    /\ calls[c].pc = "persisted"
    /\ calls' = [calls EXCEPT
                    ![c].pc = "replied",
                    ![c].outcome = Some(ReplyOf(OptionsOf(c), EngineLocals(calls[c]),
                                                calls[c].parsed[1].totalPence,
                                                getUkShiftInfo(now)))]
    /\ UNCHANGED <<workerPromise, workersCreated, psmMode, fundingVars, moneyVars,
                   timeVars, ocrVars, dateVars>>

NextEngine ==
    \/ WorkerReady
    \/ WorkerFails
    \/ \E c \in Interactions :
          \/ LoadCall(c)
          \/ StartCall(c)
          \/ CombineCall(c)
          \/ ThrowCall(c)
          \/ PersistCall(c)
          \/ ReplyCall(c)
          \/ \E p \in 1..Len(passes) :
                PassWithoutWorker(c, p) \/ SetPassMode(c, p) \/ RecognizePassOf(c, p)

SpecEngine == InitEngine /\ [][NextEngine]_vars

(***************************************************************************)
(* Specification SpecDates: addDaysIso moves an ISO date by deltaDays and  *)
(* daysBetweenIsoInclusive counts the days from the date to the result, or *)
(* from the date to itself.                                                *)
(***************************************************************************)
MaxDeltaDays == 400

\* dates next to month ends, year ends, leap days of 2000 and 2024, the
\* missing leap days of 1900 and 2100, and the first and last years that
\* four digits can hold
DateInputs ==
    { Iso(2023, 2, 28), Iso(2023, 12, 31), Iso(2024, 1, 1), Iso(2024, 2, 28),
      Iso(2024, 2, 29), Iso(2024, 3, 1), Iso(2024, 7, 31), Iso(2024, 12, 31),
      Iso(2000, 2, 29), Iso(1900, 3, 1), Iso(2100, 2, 28), Iso(1970, 1, 1),
      Iso(9999, 12, 31), Iso(100, 1, 1), Iso(99, 12, 31), Iso(0, 3, 1) }

InitDates ==
    /\ dateA \in DateInputs
    /\ dateDelta \in (-MaxDeltaDays)..MaxDeltaDays
    /\ dateB = Null
    /\ dateDays = Null
    /\ MoneyIdle
    /\ TimeIdle
    /\ OcrIdle
    /\ FundingIdle
    /\ EngineIdle

\* addDaysIso(dateA, dateDelta)
AddDays ==
    /\ dateB = Null
    /\ dateDays = Null
    /\ dateB' = Some(addDaysIso(dateA, dateDelta))
    /\ UNCHANGED <<dateA, dateDelta, dateDays, moneyVars, timeVars, ocrVars, fundingVars,
                   engineVars>>

\* daysBetweenIsoInclusive(dateA, addDaysIso(dateA, dateDelta))
DaysToMoved ==
    /\ dateB # Null
    /\ dateDays = Null
    /\ dateDays' = Some(daysBetweenIsoInclusive(dateA, dateB[1]))
    /\ UNCHANGED <<dateA, dateDelta, dateB, moneyVars, timeVars, ocrVars, fundingVars,
                   engineVars>>

\* daysBetweenIsoInclusive(dateA, dateA)
DaysToSelf ==
    /\ dateB = Null
    /\ dateDays = Null
    /\ dateDays' = Some(daysBetweenIsoInclusive(dateA, dateA))
    /\ UNCHANGED <<dateA, dateDelta, dateB, moneyVars, timeVars, ocrVars, fundingVars,
                   engineVars>>

NextDates == AddDays \/ DaysToMoved \/ DaysToSelf

SpecDates == InitDates /\ [][NextDates]_vars

(***************************************************************************)
(* Claims                                                                  *)
(***************************************************************************)

\* C1: parseAmount maps "$1,234.56" and "1234.56" to 123456 and "£99" to 9900,
\* returns null for "" and "abc", and inserting or removing a currency symbol
\* or a thousands separator leaves the parsed value of a text unchanged.
C1_ParseAmountExamples ==
    moneyPc = "parsed" =>
        /\ (moneyIn = TxtDollar1234_56 => moneyOut = Some(123456))
        /\ (moneyIn = Txt1234_56 => moneyOut = Some(123456))
        /\ (moneyIn = TxtPound99 => moneyOut = Some(9900))
        /\ (moneyIn = <<>> => moneyOut = Null)
        /\ (moneyIn = TxtAbc => moneyOut = Null)
        /\ (moneyRef # <<>> => moneyOut = moneyRef[1])

C1_Witness ==
    /\ moneyPc = "parsed"
    /\ moneyIn = Txt1234_56
    /\ moneyRef = <<Some(123456)>>

\* --- calendar facts used to state the shift claims (not taken from the code)
IsLeapYear(y) == (y % 4 = 0 /\ y % 100 # 0) \/ y % 400 = 0

DaysInMonth(y, m) ==
    IF m = 2 THEN (IF IsLeapYear(y) THEN 29 ELSE 28)
    ELSE IF m \in {4, 6, 9, 11} THEN 30 ELSE 31

PrevCalendarDate(c) ==
    IF c[3] > 1 THEN <<c[1], c[2], c[3] - 1>>
    ELSE IF c[2] > 1 THEN <<c[1], c[2] - 1, DaysInMonth(c[1], c[2] - 1)>>
    ELSE <<c[1] - 1, 12, 31>>

LocalDate(info) == <<info.ukNow.year, info.ukNow.month, info.ukNow.day>>
LocalMinutes(info) == info.ukNow.hour * 60 + info.ukNow.minute

\* C3: at 02:59 local time shiftInfo reports Night and the previous calendar
\* date as shift-day, at 03:00 Morning and that calendar date; at every instant
\* the shift-day is the previous calendar date iff the local time is before
\* 03:00, else the local calendar date.
C3_ShiftDayBoundary ==
    shiftInfo # <<>> =>
        LET info == shiftInfo[1]
            sd == ParseIso(info.shiftDayIsoDate)
        IN  /\ LocalMinutes(info) < 180 => sd = PrevCalendarDate(LocalDate(info))
            /\ LocalMinutes(info) >= 180 => sd = LocalDate(info)
            /\ info.shiftDayIsoDate = FormatIso(sd[1], sd[2], sd[3])
            /\ LocalMinutes(info) = 179 => info.currentShift = "Night"
            /\ LocalMinutes(info) = 180 => info.currentShift = "Morning"

C3_Witness ==
    /\ shiftInfo # <<>>
    /\ LocalDate(shiftInfo[1]) = <<2024, 1, 1>>
    /\ LocalMinutes(shiftInfo[1]) = 179
    /\ ParseIso(shiftInfo[1].shiftDayIsoDate) = <<2023, 12, 31>>
    /\ shiftInfo[1].currentShift = "Night"

\* C4: every local wall-clock minute belongs to exactly one shift: Morning iff
\* 03:00 <= t < 11:00, Day iff 11:00 <= t < 19:00, Night iff t >= 19:00 or
\* t < 03:00.
C4_ShiftWindows ==
    shiftInfo # <<>> =>
        LET t == LocalMinutes(shiftInfo[1])
            shift == shiftInfo[1].currentShift
        IN  /\ shift \in {"Morning", "Day", "Night"}
            /\ shift = "Morning" <=> (180 <= t /\ t < 660)
            /\ shift = "Day" <=> (660 <= t /\ t < 1140)
            /\ shift = "Night" <=> (t >= 1140 \/ t < 180)

C4_Witness ==
    /\ shiftInfo # <<>>
    /\ LocalMinutes(shiftInfo[1]) = 660
    /\ shiftInfo[1].currentShift = "Day"

\* C5: remainingShifts is the suffix of <<Morning, Day, Night>> that starts at
\* the current shift; it is never empty and its first element is the current
\* shift.
ShiftOrder == <<"Morning", "Day", "Night">>

C5_RemainingShiftsSuffix ==
    shiftInfo # <<>> =>
        LET info == shiftInfo[1]
            rem == info.remainingShiftsToday
        IN  /\ Len(rem) >= 1
            /\ rem[1] = info.currentShift
            /\ \E k \in 1..3 : ShiftOrder[k] = info.currentShift
                               /\ rem = SubSeq(ShiftOrder, k, 3)

C5_Witness ==
    /\ shiftInfo # <<>>
    /\ shiftInfo[1].currentShift = "Day"
    /\ shiftInfo[1].remainingShiftsToday = <<"Day", "Night">>

(***************************************************************************)
(* Claims about recognizeImage and extractNeededValuesFromWords            *)
(***************************************************************************)
\* the passes that read the image all returned the word list ws
PassesAgree(ws) ==
    /\ Len(allResults) = PassCount
    /\ \A i \in 1..PassCount : allResults[i] \in {ws, <<>>}
    /\ \E i \in 1..PassCount : allResults[i] = ws

IsMoneyTable(table) ==
    /\ table[1]
    /\ table[2] # <<>>
    /\ \A i \in 1..Len(table[2]) : parseMoneyToPence(table[2][i][2]) # Null
    /\ \A i, j \in 1..Len(table[2]) : i # j => table[2][i][1] # table[2][j][1]

RECURSIVE TableTotal(_, _)
TableTotal(rs, n) ==
    IF n = 0 THEN 0 ELSE parseMoneyToPence(rs[n][2])[1] + TableTotal(rs, n - 1)

MatchesTable(result, rs) ==
    /\ Len(result.rows) = Len(rs)
    /\ \A i \in 1..Len(rs) :
          /\ result.rows[i].name = rs[i][1]
          /\ result.rows[i].neededPence = parseMoneyToPence(rs[i][2])
    /\ result.totalPence = TableTotal(rs, Len(rs))

AliceBobTable == <<TRUE, <<<<TxtAlice, TxtDollar50>>, <<TxtBob, TxtDollar0>>>>>>

\* C2: for an image laid out as a table with a "Needed" header above the
\* amount column and one row per name, each with one money token in the
\* column, extraction returns exactly one row per table row, in order, with
\* that row's amount, and the total is their sum; Alice/$50.00 and Bob/$0
\* give rows [{Alice, 5000}, {Bob, 0}] and total 5000.
C2_TableScenario ==
    \A table \in Tables :
        (/\ ocrPc = "parsed"
         /\ IsMoneyTable(table)
         /\ image = ImageOf(table)
         /\ PassesAgree(image))
        => /\ MatchesTable(parsed[1], table[2])
           /\ table = AliceBobTable
                 => /\ Len(parsed[1].rows) = 2
                    /\ parsed[1].rows[1].name = TxtAlice
                    /\ parsed[1].rows[1].neededPence = Some(5000)
                    /\ parsed[1].rows[2].name = TxtBob
                    /\ parsed[1].rows[2].neededPence = Some(0)
                    /\ parsed[1].totalPence = 5000

\* C2, the observed behaviour on the Alice/Bob table: the two rows are taken
\* for one (their names differ in length by 2 and both amounts are non-null)
\* and only the row of the shorter name is left, so the total is 0
C2_AliceBobMerged ==
    (/\ ocrPc = "parsed"
     /\ image = ImageOf(AliceBobTable)
     /\ PassesAgree(image))
    => /\ Len(parsed[1].rows) = 1
       /\ parsed[1].rows[1].name = TxtBob
       /\ parsed[1].rows[1].neededPence = Some(0)
       /\ parsed[1].totalPence = 0

C2_Witness ==
    /\ ocrPc = "parsed"
    /\ image = ImageOf(AliceBobTable)
    /\ PassesAgree(image)

\* the sum of the non-null amounts among the first n rows
RECURSIVE SumOfAmounts(_, _)
SumOfAmounts(rows, n) ==
    IF n = 0 THEN 0
    ELSE SumOfAmounts(rows, n - 1)
            + (IF rows[n].neededPence = Null THEN 0 ELSE rows[n].neededPence[1])

HasAmount(row) == row.neededPence # Null

AmountOf(row) == row.neededPence[1]

\* the image has a row, of a name and one cell, whose cell does not parse
\* as money
UnparseableCellNames ==
    {image[i].text : i \in {k \in 1..(Len(image) - 1) :
                              /\ image[k].y0 = image[k + 1].y0
                              /\ Cardinality({j \in 1..Len(image) :
                                                image[j].y0 = image[k].y0}) = 2
                              /\ parseMoneyToPence(image[k + 1].text) = Null}}

NoTokenTwice(ws) == \A i, j \in 1..Len(ws) : i # j => ws[i] # ws[j]

\* the word list of the first pass that found any word
AgreedPass == allResults[CHOOSE k \in 1..PassCount : allResults[k] # <<>>]

\* C10: when the passes that read the image return the same word list (two or
\* three identical passes), the combined words are those of a single pass,
\* none of them twice, and the rows extracted from the combined words are the
\* rows extracted from a single pass.
C10_IdenticalPassesMerge ==
    (/\ ocrPc \in {"combined", "parsed"}
     /\ Cardinality({i \in 1..PassCount : allResults[i] # <<>>}) >= 2
     /\ PassesAgree(AgreedPass))
    => /\ ocrWords = combineWords(<<AgreedPass>>)
       /\ NoTokenTwice(AgreedPass) => ocrWords = AgreedPass
       /\ ocrPc = "parsed" => parsed[1] = extractNeededValuesFromWords(AgreedPass)

C10_Witness ==
    /\ ocrPc = "parsed"
    /\ Len(image) >= 5
    /\ \A i \in 1..PassCount : allResults[i] = image
    /\ Len(parsed[1].rows) >= 2

(***************************************************************************)
(* Claims about the /update handler                                        *)
(***************************************************************************)
HasTargets == updPc = "idle" /\ reply # <<>> /\ reply[1].kind = "targets"

\* q is the least integer with q * n >= a
IsCeilingOf(q, a, n) == q * n >= a /\ (q - 1) * n < a

\* C6: dailyTarget = ceil(remainingTotal / daysLeft) and perShiftTarget =
\* ceil(dailyTarget / number of remaining shifts today), in whole pence;
\* remainingTotal 10000 with daysLeft 4 gives 2500, and with remaining shifts
\* [Day, Night] a per-shift target of 1250; for remainingTotal >= 0,
\* dailyTarget * daysLeft >= remainingTotal and perShiftTarget * (number of
\* remaining shifts) >= dailyTarget.
C6_TargetsAreCeilings ==
    HasTargets =>
        /\ IsCeilingOf(reply[1].dailyTargetPence, reply[1].remainingTotalPence,
                       reply[1].daysLeft)
        /\ IsCeilingOf(reply[1].perShiftPence, reply[1].dailyTargetPence,
                       Len(reply[1].shiftInfo.remainingShiftsToday))
        /\ (reply[1].remainingTotalPence = 10000 /\ reply[1].daysLeft = 4)
              => /\ reply[1].dailyTargetPence = 2500
                 /\ reply[1].shiftInfo.remainingShiftsToday = <<"Day", "Night">>
                       => reply[1].perShiftPence = 1250
        /\ reply[1].remainingTotalPence >= 0
              => /\ reply[1].dailyTargetPence * reply[1].daysLeft
                       >= reply[1].remainingTotalPence
                 /\ reply[1].perShiftPence * Len(reply[1].shiftInfo.remainingShiftsToday)
                       >= reply[1].dailyTargetPence

C6_Witness ==
    /\ HasTargets
    /\ reply[1].remainingTotalPence = 10000
    /\ reply[1].daysLeft = 4
    /\ reply[1].shiftInfo.remainingShiftsToday = <<"Day", "Night">>
    /\ reply[1].perShiftPence = 1250

\* the accumulator the invocation in flight started from
StartingAdjustment ==
    IF options.resetAdjustment THEN 0 ELSE ExistingAdjustment(locals.existing)

DayNumber(iso) == DaysOfParts(ParseIso(iso))

\* C8: whenever targets are produced daysLeft is an integer >= 1: the
\* override when one is supplied, otherwise max(1, daysBetweenInclusive(
\* shift-day date, deadline)); it is counted from the shift-day date, so
\* between 00:00 and 02:59 UK time it is one more than the count from the
\* civil date to a deadline that is not yet past; a deadline on or before the
\* shift-day date gives 1.
C8_DaysLeft ==
    HasTargets =>
        /\ reply[1].daysLeft \in Nat
        /\ reply[1].daysLeft >= 1
        /\ options.daysLeftOverride # Null
              => reply[1].daysLeft = options.daysLeftOverride[1]
        /\ options.daysLeftOverride = Null
              => /\ locals.currentEndDate # Null
                 /\ reply[1].daysLeft
                       = Max2(1, DayNumber(locals.currentEndDate[1])
                                   - DayNumber(reply[1].shiftInfo.shiftDayIsoDate) + 1)
                 /\ (/\ reply[1].shiftInfo.ukNow.hour < 3
                     /\ DayNumber(locals.currentEndDate[1])
                           >= DayNumber(reply[1].shiftInfo.ukNow.isoDate))
                       => reply[1].daysLeft
                             = DayNumber(locals.currentEndDate[1])
                                 - DayNumber(reply[1].shiftInfo.ukNow.isoDate) + 2
                 /\ DayNumber(locals.currentEndDate[1])
                       <= DayNumber(reply[1].shiftInfo.shiftDayIsoDate)
                       => reply[1].daysLeft = 1

C8_Witness ==
    /\ HasTargets
    /\ options.daysLeftOverride = Null
    /\ reply[1].shiftInfo.ukNow.hour < 3
    /\ reply[1].shiftInfo.ukNow.isoDate = Iso(2024, 7, 1)
    /\ locals.currentEndDate = Some(Iso(2024, 7, 3))
    /\ reply[1].daysLeft = 4

(***************************************************************************)
(* Claims about the shared OCR engine                                      *)
(***************************************************************************)
\* C11: the passes of one recognizeImage call are independent: in every
\* interleaving, whenever a pass recognizes the image the engine is in the
\* page segmentation mode that this pass selected (11, 6 or 4).
C11_PassRunsUnderItsMode ==
    [][\A c \in Interactions, p \in 1..Len(passes) :
          RecognizePassOf(c, p) => psmMode = Some(passes[p])]_vars

\* a pass is about to recognize while the engine is in another pass's mode,
\* and no other call has touched the engine
C11_Witness ==
    /\ updates = 1
    /\ \E c \in Interactions, p \in 1..Len(passes) :
          /\ calls[c].pc = "passes"
          /\ calls[c].pass[p].pc = "recognize"
          /\ psmMode # Some(passes[p])

\* C12: over all concurrent and sequential recognizeImage calls the engine is
\* created at most once: a call that arrives while the initialization is in
\* flight, or after it has settled, awaits the same worker promise.
C12_WorkerCreatedOnce ==
    /\ workersCreated <= 1
    /\ (workersCreated = 1) = (workerPromise # Null)
    /\ (updates > 0) => workersCreated = 1

\* two calls await the initialization that the first of them started
C12_Witness ==
    /\ workerPromise = Some("pending")
    /\ workersCreated = 1
    /\ \A c \in Interactions :
          /\ calls[c].pc = "passes"
          /\ \A p \in 1..Len(passes) : calls[c].pass[p].pc = "getWorker"

ThrewIn(call) == {p \in 1..Len(call.pass) : call.pass[p].pc = "threw"}

WroteState(call) ==
    fundingState # <<>> /\ fundingState[1].lastImageMessageId = call.id

\* C13: when the engine throws in a pass, recognizeImage throws the error of
\* the pass that failed first and the handler throws it on: the words of the
\* other passes are never combined, no pass is run again, and the invocation
\* has no parse result, no targets and has not written the guild's state.
C13_FailedPassFailsCall ==
    \A c \in Interactions :
        ThrewIn(calls[c]) # {}
        => /\ calls[c].pc \in {"passes", "threw"}
           /\ calls[c].words = Null
           /\ calls[c].parsed = Null
           /\ ~WroteState(calls[c])
           /\ calls[c].rejected # Null
           /\ \E p \in ThrewIn(calls[c]) : calls[c].rejected = Some(calls[c].pass[p].error)
           /\ calls[c].pc = "passes" => calls[c].outcome = Null
           /\ calls[c].pc = "threw"
                 => calls[c].outcome =
                        Some([kind |-> "error", error |-> calls[c].rejected[1]])

\* one pass has thrown in recognition, the other two have recognized the
\* image, and the invocation has ended with that error
C13_Witness ==
    \E c \in Interactions :
        /\ calls[c].pc = "threw"
        /\ calls[c].pass[1].pc = "done"
        /\ calls[c].pass[2].pc = "threw"
        /\ calls[c].pass[3].pc = "done"
        /\ calls[c].outcome = Some([kind |-> "error", error |-> <<"recognize", "6">>])
        /\ fundingState = <<>>

(***************************************************************************)
(* Claims about the outcomes of the /update handler                        *)
(***************************************************************************)
\* the last invocation went past the loading of the state
HandledUpdate ==
    /\ updPc = "idle"
    /\ reply # <<>>
    /\ reply[1].kind \in {"targets", "missingEndDate", "error"}

NoValidDate(d) == d = Null \/ ~isValidIsoDate(d[1])

\* no valid end date in the option, the loaded state or the environment, and
\* no days_left override
NoDeadline ==
    /\ NoValidDate(options.endDate)
    /\ locals.existing = <<>> \/ NoValidDate(locals.existing[1].endDate)
    /\ NoValidDate(envEndDate)
    /\ options.daysLeftOverride = Null

\* C14: an invocation with neither a valid end date (option, persisted state,
\* environment) nor a days_left override ends with the missing-end-date
\* reply unless recognition failed; that reply is not the outcome of an OCR
\* failure and carries no targets, and it is given in no other case.
C14_MissingEndDate ==
    HandledUpdate
    => /\ (NoDeadline /\ reply[1].kind # "error") = (reply[1].kind = "missingEndDate")
       /\ NoDeadline => reply[1].kind # "targets"
       /\ reply[1].kind = "missingEndDate" => reply[1] = [kind |-> "missingEndDate"]

\* an end_date of the wrong form, nothing persisted or configured: the reply
\* is the missing-end-date one
C14_Witness ==
    /\ HandledUpdate
    /\ options.endDate = Some(TxtShortDate)
    /\ NoDeadline
    /\ reply[1] = [kind |-> "missingEndDate"]

(***************************************************************************)
(* Claims about the money codec                                            *)
(***************************************************************************)
\* letters read as digits: as the claim lists them, and as the code reads them
ClaimedOcrDigits == {<<"O", "0">>, <<"I", "1">>, <<"l", "1">>, <<"S", "5">>}
CodeOcrDigits == ClaimedOcrDigits \cup {<<"o", "0">>, <<"Z", "2">>}

ReadAs(c, table) ==
    IF \E pr \in table : pr[1] = c THEN (CHOOSE pr \in table : pr[1] = c)[2] ELSE c

IsAmountChar(c) == c \notin {"$", "£", ",", " "}

\* the text without currency symbols, thousands separators and whitespace,
\* its letters read as digits
AmountChars(text, table) ==
    [i \in 1..Len(SelectSeq(text, IsAmountChar)) |->
        ReadAs(SelectSeq(text, IsAmountChar)[i], table)]

\* digits, or digits "." and one to three digits; k is the length of the
\* whole part
HasAmountForm(t, k) ==
    /\ k \in 1..Len(t)
    /\ \A i \in 1..k : t[i] \in DigitSet
    /\ \/ k = Len(t)
       \/ /\ t[k + 1] = "."
          /\ Len(t) - (k + 1) \in 1..3
          /\ \A i \in (k + 2)..Len(t) : t[i] \in DigitSet

RECURSIVE DecimalOf(_)
DecimalOf(digits) ==
    IF digits = <<>> THEN 0
    ELSE DigitVal(Head(digits)) * 10 ^ (Len(digits) - 1) + DecimalOf(Tail(digits))

FractionDigit(t, i) == IF i <= Len(t) THEN DigitVal(t[i]) ELSE 0

\* whole * 100 plus the first two fractional digits
AmountOfForm(t, k) ==
    DecimalOf(SubSeq(t, 1, k)) * 100 + FractionDigit(t, k + 2) * 10
        + FractionDigit(t, k + 3)

ExpectedAmount(t) ==
    IF \E k \in 1..Len(t) : HasAmountForm(t, k)
    THEN Some(AmountOfForm(t, CHOOSE k \in 1..Len(t) : HasAmountForm(t, k)))
    ELSE Null

\* C15 as claimed: parseAmount reads only O as 0, I and l as 1 and S as 5;
\* a text with any other letter yields null.
C15_OnlyClaimedLetters ==
    moneyPc = "parsed" => moneyOut = ExpectedAmount(AmountChars(moneyIn, ClaimedOcrDigits))

\* C15: parseAmount returns a value exactly for the texts that, without
\* currency symbols, thousands separators and whitespace and with O and o
\* read as 0, I and l as 1, S as 5 and Z as 2, are digits or digits "." and
\* one to three digits; the value is whole * 100 plus the first two
\* fractional digits (one digit padded with 0, a third digit dropped); every
\* other text yields null.
C15_ParseAmountForm ==
    moneyPc = "parsed" => moneyOut = ExpectedAmount(AmountChars(moneyIn, CodeOcrDigits))

\* "1.999" is 199: the third fractional digit is dropped, not rounded
C15_Witness ==
    /\ moneyPc = "parsed"
    /\ moneyIn = <<"1", ".", "9", "9", "9">>
    /\ moneyOut = Some(199)

IsDigitChar(c) == c \in DigitSet

\* the text is an optional "-", "$", an integer part without a leading zero
\* whose digits are grouped in threes from the right by ",", then "." and
\* exactly two digits, and it reads as |pence| hundredths
IsGroupedInteger(int) ==
    /\ int # <<>>
    /\ \A i \in 1..Len(int) :
          IF (Len(int) - i + 1) % 4 = 0 THEN int[i] = "," ELSE int[i] \in DigitSet
    /\ int[1] = "0" => Len(int) = 1

IsFormatOf(text, body, pence) ==
    /\ text = (IF pence < 0 THEN <<"-">> ELSE <<>>) \o <<"$">> \o body
    /\ Len(body) >= 4
    /\ body[Len(body) - 2] = "."
    /\ body[Len(body) - 1] \in DigitSet
    /\ body[Len(body)] \in DigitSet
    /\ IsGroupedInteger(SubSeq(body, 1, Len(body) - 3))
    /\ DecimalOf(SelectSeq(body, IsDigitChar)) = (IF pence < 0 THEN -pence ELSE pence)

Txt1234567_89 == <<"$", "1", ",", "2", "3", "4", ",", "5", "6", "7", ".", "8", "9">>

\* C16: for an amount x with at most two fractional digits, toMinorUnits(x)
\* is x in hundredths and format(toMinorUnits(x), "$") is the sign, "$", the
\* integer part grouped in thousands, "." and exactly two fractional digits
\* (12.5 gives "$12.50"); for m >= 0, parseAmount(format(m, "$")) = m.
C16_CodecRoundTrip ==
    moneyPence # Null =>
        /\ moneyPence[1] * 10 = moneyAmount[1]
        /\ IsFormatOf(moneyIn, SubSeq(moneyIn, IF moneyPence[1] < 0 THEN 3 ELSE 2,
                                      Len(moneyIn)), moneyPence[1])
        /\ (moneyAmount = Some(12500) => moneyIn = Txt12_50)
        /\ (moneyPc = "parsed" /\ moneyPence[1] >= 0 => moneyOut = moneyPence)

C16_Witness ==
    /\ moneyPc = "parsed"
    /\ moneyAmount = Some(1234567890)
    /\ moneyIn = Txt1234567_89
    /\ moneyOut = Some(123456789)

\* C17 as claimed: daysBetweenInclusive(d, d) = 1 and
\* daysBetweenInclusive(a, addDays(a, n)) = n + 1 for every date a and every
\* integer n, across month, year and leap-year boundaries.
C17_DaysBetweenAddDays ==
    dateDays # Null =>
        dateDays = Some(IF dateB = Null THEN 1 ELSE dateDelta + 1)

\* the same for the dates whose year, and the year of the moved date, is 100
\* or later
C17_FromYear100 ==
    (dateDays # Null /\ dateB # Null /\ ParseIso(dateA)[1] >= 100
        /\ ParseIso(dateB[1])[1] >= 100) => dateDays = Some(dateDelta + 1)

\* from the leap day of 2024 over the end of the year into 2025
C17_Witness ==
    /\ dateA = Iso(2024, 2, 29)
    /\ dateDelta = 366
    /\ dateB = Some(Iso(2025, 3, 1))
    /\ dateDays = Some(367)

\* the day before 0100-01-01 is 0099-12-31, which Date.UTC reads as
\* 1999-12-31
C17_Year99 ==
    /\ dateA = Iso(100, 1, 1)
    /\ dateDelta = -1
    /\ dateB = Some(Iso(99, 12, 31))
    /\ dateDays = Some(DaysFromCivil(1999, 12, 31) - DaysFromCivil(100, 1, 1) + 1)

(***************************************************************************)
(* Claims about the rows of an extraction                                  *)
(***************************************************************************)
\* the merge test as claimed: equal names, or one name within the other and
\* a length difference of at most 2; equal amounts, or one of them null
ClaimedNameMatch(n1, n2) ==
    \/ n1 = n2
    \/ /\ Includes(n1, n2) \/ Includes(n2, n1)
       /\ Len(n1) - Len(n2) \in -2..2

ClaimedAmountMatch(a, b) == a = b \/ a = Null \/ b = Null

ClaimedMerge(r, q) ==
    /\ ClaimedNameMatch(NormalizedName(r[1]), NormalizedName(q[1]))
    /\ ClaimedAmountMatch(parseMoneyToPence(r[2]), parseMoneyToPence(q[2]))

Remains(result, r) ==
    \E i \in 1..Len(result.rows) :
        /\ result.rows[i].name = r[1]
        /\ result.rows[i].neededPence = parseMoneyToPence(r[2])

RECURSIVE CellTotal(_, _)
CellTotal(rs, n) ==
    IF n = 0 THEN 0
    ELSE CellTotal(rs, n - 1)
            + (IF parseMoneyToPence(rs[n][2]) = Null THEN 0
               ELSE parseMoneyToPence(rs[n][2])[1])

AliceRobertTable == <<TRUE, <<<<TxtAlice, TxtDollar50>>, <<TxtRobert, TxtDollar50>>>>>>

\* C18: two rows are merged only if their normalized names are equal, or one
\* is within the other with a length difference of at most 2, and their
\* amounts are equal or one is null; a table row that passes this test with
\* no other row of the table remains in the output, and when no two rows pass
\* it the total is the sum of all the amounts.
C18_MergeOnlySimilarRows ==
    \A table \in Tables :
        (/\ ocrPc = "parsed"
         /\ table[1]
         /\ image = ImageOf(table)
         /\ PassesAgree(image))
        => /\ \A i \in 1..Len(table[2]) :
                 (\A j \in 1..Len(table[2]) \ {i} : ~ClaimedMerge(table[2][i], table[2][j]))
                    => Remains(parsed[1], table[2][i])
           /\ (\A i, j \in 1..Len(table[2]) :
                    i # j => ~ClaimedMerge(table[2][i], table[2][j]))
                 => parsed[1].totalPence = CellTotal(table[2], Len(table[2]))

\* Alice/$50.00 and Robert/$50.00: neither name is within the other, yet one
\* row is left and the total is 5000
C18_Witness ==
    /\ ocrPc = "parsed"
    /\ image = ImageOf(AliceRobertTable)
    /\ PassesAgree(image)
    /\ Len(parsed[1].rows) = 1
    /\ parsed[1].totalPence = 5000

\* C19: no two rows of the output have the same normalized name and amounts
\* that are equal or of which one is null.
C19_NoDuplicateRows ==
    ocrPc = "parsed" =>
        \A i, j \in 1..Len(parsed[1].rows) :
            i # j => ~ /\ NormalizedName(parsed[1].rows[i].name)
                            = NormalizedName(parsed[1].rows[j].name)
                      /\ ClaimedAmountMatch(parsed[1].rows[i].neededPence,
                                            parsed[1].rows[j].neededPence)

\* two rows named Alice are left, one with 5000 and one without an amount
C19_Witness ==
    /\ ocrPc = "parsed"
    /\ Len(parsed[1].rows) = 2
    /\ parsed[1].rows[1].name = TxtAlice
    /\ parsed[1].rows[2].name = TxtAlice
    /\ parsed[1].rows[1].neededPence = Some(5000)
    /\ parsed[1].rows[2].neededPence = Null

\* the tokens of the image on the line at y0: those left of the header, and
\* those at or right of its left edge
LineNameTokens(y0) ==
    SelectSeq(image, LAMBDA w : w.y0 = y0 /\ w.x0 < HeaderToken.x0)

LineValueTokens(y0) ==
    SelectSeq(image, LAMBDA w : w.y0 = y0 /\ w.x0 >= HeaderToken.x0)

ConfidenceSum(ws) == SumOf([i \in 1..Len(ws) |-> ws[i].confidence])

\* confidence, in tenths, is the mean confidence of the tokens ws
IsMeanOf(confidence, ws) == ws # <<>> /\ confidence * Len(ws) = 10 * ConfidenceSum(ws)

LineConfidenceIs(confidence, y0) ==
    IF LineValueTokens(y0) # <<>> THEN IsMeanOf(confidence, LineValueTokens(y0))
    ELSE IsMeanOf(confidence, LineNameTokens(y0))

DataLines == {image[k].y0 : k \in 1..Len(image)} \ {HeaderToken.y0}

\* C20: the confidence of a row is the mean OCR confidence of the tokens of
\* its line in the amount column when there is one, and else the mean OCR
\* confidence of its name tokens.
C20_RowConfidenceIsMean ==
    (/\ ocrPc = "parsed"
     /\ Len(image) > 0 /\ image[1] = HeaderToken
     /\ PassesAgree(image))
    => \A i \in 1..Len(parsed[1].rows) :
          \E y0 \in DataLines :
              /\ parsed[1].rows[i].name
                    = NameOf([k \in 1..Len(LineNameTokens(y0)) |-> LineNameTokens(y0)[k].text])
              /\ LineConfidenceIs(parsed[1].rows[i].confidence, y0)

\* the row of a name alone has confidence 0, not the 80 of its name token
C20_Witness ==
    /\ ocrPc = "parsed"
    /\ image = ImgNameOnly
    /\ PassesAgree(image)
    /\ Len(parsed[1].rows) = 1
    /\ parsed[1].rows[1].name = TxtAlice
    /\ parsed[1].rows[1].confidence = 0

\* C20 for the rows with a token in the amount column
C20_ValueBandMean ==
    (/\ ocrPc = "parsed"
     /\ Len(image) > 0 /\ image[1] = HeaderToken
     /\ PassesAgree(image))
    => \A i \in 1..Len(parsed[1].rows) :
          \E y0 \in DataLines :
              /\ parsed[1].rows[i].name
                    = NameOf([k \in 1..Len(LineNameTokens(y0)) |-> LineNameTokens(y0)[k].text])
              /\ IF LineValueTokens(y0) # <<>>
                 THEN IsMeanOf(parsed[1].rows[i].confidence, LineValueTokens(y0))
                 ELSE parsed[1].rows[i].confidence = 0

C20_TwoTokenMean ==
    /\ ocrPc = "parsed"
    /\ image = ImgTwoValueTokens
    /\ PassesAgree(image)
    /\ Len(parsed[1].rows) = 1
    /\ parsed[1].rows[1].confidence = 750

(***************************************************************************)
(* Claims about the header, the amount strategies and the fallback         *)
(***************************************************************************)
IsHeaderOf(h, w) ==
    /\ h.text = w.text
    /\ h.x0 = w.x0 /\ h.y0 = w.y0 /\ h.x1 = w.x1 /\ h.y1 = w.y1

\* w has the highest confidence among cands and, among those of that
\* confidence, the longest text
IsPreferredHeader(w, cands) ==
    \A j \in 1..Len(cands) :
        /\ cands[j].confidence <= w.confidence
        /\ cands[j].confidence = w.confidence => Len(cands[j].text) <= Len(w.text)

HasHighestConfidence(w, cands) ==
    \A j \in 1..Len(cands) : cands[j].confidence <= w.confidence

\* C21: the chosen header is a header candidate of the highest confidence,
\* and among the candidates of that confidence it has the longest text.
C21_HeaderChoice ==
    (ocrPc = "parsed" /\ HeaderCandidates(ocrWords) # <<>>)
    => /\ parsed[1].header # Null
       /\ \E i \in 1..Len(HeaderCandidates(ocrWords)) :
             /\ IsHeaderOf(parsed[1].header[1], HeaderCandidates(ocrWords)[i])
             /\ IsPreferredHeader(HeaderCandidates(ocrWords)[i], HeaderCandidates(ocrWords))

\* "Need" before "Needed", both of confidence 90: the header is "Need"
C21_Witness ==
    /\ ocrPc = "parsed"
    /\ image = <<ShortHeader(90), LongHeader(90)>> \o RowTokens(1, TxtAlice, TxtDollar50)
    /\ PassesAgree(image)
    /\ parsed[1].header # Null
    /\ parsed[1].header[1].text = TxtNeed

\* C21, the half that holds: the chosen header is a candidate of the highest
\* confidence
C21_HighestConfidence ==
    (ocrPc = "parsed" /\ HeaderCandidates(ocrWords) # <<>>)
    => /\ parsed[1].header # Null
       /\ \E i \in 1..Len(HeaderCandidates(ocrWords)) :
             /\ IsHeaderOf(parsed[1].header[1], HeaderCandidates(ocrWords)[i])
             /\ HasHighestConfidence(HeaderCandidates(ocrWords)[i],
                                     HeaderCandidates(ocrWords))

\* the first result of rs that is not null, or null
FirstParsed(rs) ==
    IF \E i \in 1..Len(rs) : rs[i] # Null
    THEN rs[CHOOSE i \in 1..Len(rs) : rs[i] # Null /\ \A j \in 1..(i - 1) : rs[j] = Null]
    ELSE Null

JoinedTexts(ts) == parseMoneyToPence(JoinSpace(ts))

\* the last text of ts, from the right, that parses alone
RightmostParsed(ts) ==
    FirstParsed([i \in 1..Len(ts) |-> parseMoneyToPence(ts[Len(ts) + 1 - i])])

\* the results of the five strategies for the value texts vs of a line whose
\* texts are ls
StrategyResults(vs, ls) ==
    << IF vs # <<>> THEN JoinedTexts(vs) ELSE Null,
       RightmostParsed(vs),
       IF Len(vs) >= 2 THEN JoinedTexts(<<vs[Len(vs) - 1], vs[Len(vs)]>>) ELSE Null,
       IF Len(vs) >= 2 THEN JoinedTexts(<<vs[1], vs[2]>>) ELSE Null,
       JoinedTexts(ls) >>

LineTokens(y0) == SelectSeq(image, LAMBDA w : w.y0 = y0)

LineAmount(y0) ==
    FirstParsed(StrategyResults(
        [k \in 1..Len(LineValueTokens(y0)) |-> LineValueTokens(y0)[k].text],
        [k \in 1..Len(LineTokens(y0)) |-> LineTokens(y0)[k].text]))

RowLines == {image[k].y0 : k \in 1..Len(image)} \ {HeaderToken.y0, ShortHeader(0).y0}

\* C22: the amount of a row is the result of the first strategy that parses,
\* in the order: all value tokens joined, each value token alone from right
\* to left, the last two joined, the first two joined, the text of the whole
\* line; it is null only when all five fail.
C22_FirstStrategyWins ==
    (/\ ocrPc = "parsed"
     /\ parsed[1].header # Null
     /\ PassesAgree(image))
    => \A i \in 1..Len(parsed[1].rows) :
          \E y0 \in RowLines :
              /\ parsed[1].rows[i].name
                    = NameOf([k \in 1..Len(LineNameTokens(y0)) |-> LineNameTokens(y0)[k].text])
              /\ parsed[1].rows[i].neededPence = LineAmount(y0)

\* "$0", "n/a", "$50.00" in the column: the joined text fails and the scan
\* from the right finds 5000
C22_Witness ==
    /\ ocrPc = "parsed"
    /\ image = ImgScanFromRight
    /\ PassesAgree(image)
    /\ Len(parsed[1].rows) = 1
    /\ parsed[1].rows[1].neededPence = Some(5000)

\* the line "12": no value token, the whole line parses as 1200
C22_WholeLine ==
    /\ ocrPc = "parsed"
    /\ image = ImgWholeLine
    /\ PassesAgree(image)
    /\ Len(parsed[1].rows) = 1
    /\ parsed[1].rows[1].neededPence = Some(1200)

(***************************************************************************)
(* Claims about the OCR adapter                                            *)
(***************************************************************************)
HasDigitOrCurrency(text) == \E i \in 1..Len(text) : text[i] \in DigitSet \cup {"$", "£"}

\* the filter as claimed
ClaimedKeeps(w) ==
    /\ w.text # <<>>
    /\ \/ w.confidence >= 25
       \/ HasDigitOrCurrency(w.text)
       \/ Len(w.text) > 1

\* the filter without the clause on the number of characters
KeepsMoneyShaped(w) ==
    /\ w.text # <<>>
    /\ w.confidence >= 25 \/ HasDigitOrCurrency(w.text)

\* C23: the tokens of a pass are the tokens of the image that have a text
\* and either a confidence of 25 or more, a digit or a currency symbol, or
\* more than one character.
C23_AdapterFilter ==
    \A k \in 1..Len(allResults) :
        (allResults[k] # <<>> /\ Readings(image) = {<<>>, image})
            => allResults[k] = SelectSeq(image, ClaimedKeeps)

\* a pass over the low-confidence image: "Alice" at confidence 10 is gone,
\* "$50.00" at confidence 10 is kept
C23_Witness ==
    /\ image = ImgLowConfidence
    /\ Len(allResults) >= 1
    /\ allResults[1] = << HeaderToken,
                          Word(TxtDollar50, 10, 200, RowY(1), 260, RowY(1) + 20),
                          NameToken(3, TxtBob, 25),
                          Word(TxtDollar0, 24, 200, RowY(3), 220, RowY(3) + 20) >>

\* C23 without "or more than one character"
C23_MoneyShapedOnly ==
    \A k \in 1..Len(allResults) :
        (allResults[k] # <<>> /\ Readings(image) = {<<>>, image})
            => allResults[k] = SelectSeq(image, KeepsMoneyShaped)

\* Math.round(v / 10) of a coordinate: the nearest multiple of ten, the
\* upper one half-way
NearestTen(v) == (2 * v + 10) \div 20

\* the tokens share a bucket: x0 and y0 rounded to the 10px grid, and the
\* text in lower case
SameBucket(v, w) ==
    /\ NearestTen(v.x0) = NearestTen(w.x0)
    /\ NearestTen(v.y0) = NearestTen(w.y0)
    /\ toLowerCase(v.text) = toLowerCase(w.text)

PassTokens == UNION {{allResults[k][i] : i \in 1..Len(allResults[k])} : k \in 1..Len(allResults)}

InBucket(w) == {v \in PassTokens : SameBucket(v, w)}

\* the combined word at i is the one token kept for the bucket of w
KeptFor(w, i) ==
    /\ SameBucket(ocrWords[i], w)
    /\ \A j \in 1..Len(ocrWords) : SameBucket(ocrWords[j], w) => j = i
    /\ \A v \in InBucket(w) : v.confidence <= ocrWords[i].confidence
    /\ InBucket(w) = {w} => ocrWords[i] = w

\* C24: the combined words hold exactly one token for every bucket of the
\* passes' tokens, a token of the bucket's highest confidence, and nothing
\* else; a token that is alone in its bucket is among the combined words.
C24_OneTokenPerBucket ==
    ocrPc \in {"combined", "parsed"} =>
        /\ \A i \in 1..Len(ocrWords) : ocrWords[i] \in PassTokens
        /\ \A w \in PassTokens : \E i \in 1..Len(ocrWords) : KeptFor(w, i)

\* the passes read "$50.00" at confidence 70, 90 and not at all, in one
\* bucket; the token of confidence 90 is the one kept, and it came from one
\* pass only
C24_Witness ==
    /\ ocrPc = "combined"
    /\ image = ImgJitter
    /\ allResults = << [i \in 1..3 |-> Moved(ImgJitter[i], 2, 3, -20)],
                       ImgJitter, SubSeq(ImgJitter, 1, 2) >>
    /\ ocrWords = ImgJitter

\* the 40px bin of the centre of a cell of table row i, doubled coordinates
CellBin(cell) == ((200 + (200 + 10 * Len(cell))) + 40) \div 80

IsMoneyCell(cell) == parseMoneyToPence(cell) # Null

BinCount(rs, bin) ==
    Cardinality({i \in 1..Len(rs) : IsMoneyCell(rs[i][2]) /\ CellBin(rs[i][2]) = bin})

\* row i has a money-shaped cell in a densest bin of the money cells
InDensestBin(rs, i) ==
    /\ IsMoneyCell(rs[i][2])
    /\ \A j \in 1..Len(rs) :
          IsMoneyCell(rs[j][2]) => BinCount(rs, CellBin(rs[j][2])) <= BinCount(rs, CellBin(rs[i][2]))

MoneyCellCount(rs) == Cardinality({i \in 1..Len(rs) : IsMoneyCell(rs[i][2])})

AliceOnlyTable == <<FALSE, <<<<TxtAlice, TxtDollar50>>>>>>

\* C25: without a header candidate, every line with a name left of a
\* money-shaped token in the densest bin of the money tokens gives a row of
\* that name and amount; the result is empty, with total 0, only when there
\* is no such line.
C25_FallbackYieldsRows ==
    \A table \in Tables :
        (/\ ocrPc = "parsed"
         /\ ~table[1]
         /\ image = ImageOf(table)
         /\ PassesAgree(image))
        => /\ parsed[1].header = Null
           /\ \A i \in 1..Len(table[2]) :
                 InDensestBin(table[2], i) => Remains(parsed[1], table[2][i])
           /\ parsed[1].rows = <<>> => parsed[1].totalPence = 0

\* a header-less image of the one row Alice/$50.00: no row and total 0
C25_Witness ==
    /\ ocrPc = "parsed"
    /\ image = ImageOf(AliceOnlyTable)
    /\ PassesAgree(image)
    /\ parsed[1].rows = <<>>
    /\ parsed[1].totalPence = 0

\* C25 for the images with two or more money-shaped tokens
C25_TwoMoneyTokens ==
    \A table \in Tables :
        (/\ ocrPc = "parsed"
         /\ ~table[1]
         /\ image = ImageOf(table)
         /\ PassesAgree(image)
         /\ MoneyCellCount(table[2]) >= 2)
        => /\ parsed[1].header = Null
           /\ \A i \in 1..Len(table[2]) :
                 InDensestBin(table[2], i) => Remains(parsed[1], table[2][i])

C25_TwoRows ==
    /\ ocrPc = "parsed"
    /\ image = ImageOf(<<FALSE, <<<<TxtAlice, TxtDollar50>>, <<TxtRobert, TxtDollar0>>>>>>)
    /\ PassesAgree(image)
    /\ Len(parsed[1].rows) = 2
    /\ parsed[1].totalPence = 5000

(***************************************************************************)
(* C26: for a fixed remaining total and daysLeft the per-shift target does *)
(* not decrease through the shift-day: the figure of a reply, computed     *)
(* again for the Morning, the Day and the Night of its shift-day, rises    *)
(* or stays.                                                               *)
(***************************************************************************)
PerShiftDuring(r, shift) ==
    TargetsFor(r.remainingTotalPence, r.daysLeft,
               ShiftInfoWith(r.shiftInfo.ukNow, r.shiftInfo.shiftDayIsoDate, shift)).perShiftPence

RisesThroughShiftDay(r) ==
    /\ r.perShiftPence = PerShiftDuring(r, r.shiftInfo.currentShift)
    /\ PerShiftDuring(r, "Morning") <= PerShiftDuring(r, "Day")
    /\ PerShiftDuring(r, "Day") <= PerShiftDuring(r, "Night")

IsTargets == reply # <<>> /\ reply[1].kind = "targets"

C26_PerShiftNotDecreasing == IsTargets => RisesThroughShiftDay(reply[1])

\* an add larger than the parsed total: the remaining total is negative and
\* the Morning figure is above the Night figure
C26_Witness ==
    /\ IsTargets
    /\ reply[1].remainingTotalPence = -1250
    /\ reply[1].daysLeft = 4
    /\ reply[1].shiftInfo.currentShift = "Morning"
    /\ reply[1].perShiftPence = -104
    /\ PerShiftDuring(reply[1], "Night") = -312

\* with nothing over-funded the figure rises or stays
C26_NotOverFunded ==
    IsTargets /\ reply[1].remainingTotalPence >= 0 => RisesThroughShiftDay(reply[1])

C26_Rises ==
    /\ IsTargets
    /\ reply[1].remainingTotalPence = 10000
    /\ reply[1].shiftInfo.currentShift = "Day"
    /\ PerShiftDuring(reply[1], "Morning") < reply[1].perShiftPence
    /\ reply[1].perShiftPence < PerShiftDuring(reply[1], "Night")

(***************************************************************************)
(* C27: from one minute to the next, getUkShiftInfo either stays in its    *)
(* shift-day, where the shift stays or steps Morning -> Day or Day ->      *)
(* Night, the remaining shifts do not grow and the shift-day date stays,   *)
(* or reaches 03:00, where it is Morning with three remaining shifts after *)
(* a Night and the shift-day date is the next calendar day.                *)
(***************************************************************************)
ShiftSteps == {<<"Morning", "Day">>, <<"Day", "Night">>}

WithinShiftDay(a, b) ==
    /\ b.shiftDayIsoDate = a.shiftDayIsoDate
    /\ b.currentShift = a.currentShift \/ <<a.currentShift, b.currentShift>> \in ShiftSteps
    /\ Len(b.remainingShiftsToday) <= Len(a.remainingShiftsToday)

StartsShiftDay(a, b) ==
    /\ a.currentShift = "Night"
    /\ Len(a.remainingShiftsToday) = 1
    /\ b.currentShift = "Morning"
    /\ Len(b.remainingShiftsToday) = 3
    /\ ParseIso(a.shiftDayIsoDate) = PrevCalendarDate(ParseIso(b.shiftDayIsoDate))

ShiftProgress(a, b) ==
    IF LocalMinutes(b) = 180 THEN StartsShiftDay(a, b) ELSE WithinShiftDay(a, b)

C27_ShiftDayProgress ==
    [][now' = now + 1 => ShiftProgress(getUkShiftInfo(now), getUkShiftInfo(now'))]_vars

\* 03:00 after the 25 hours of the shift-day in which BST ends
C27_Witness ==
    /\ shiftInfo = <<getUkShiftInfo(now)>>
    /\ ShiftProgress(getUkShiftInfo(now - 1), shiftInfo[1])
    /\ LocalMinutes(shiftInfo[1]) = 180
    /\ shiftInfo[1].shiftDayIsoDate = Iso(2024, 10, 27)
    /\ getUkShiftInfo(now - 25 * 60).shiftDayIsoDate = Iso(2024, 10, 26)
    /\ LocalMinutes(getUkShiftInfo(now - 25 * 60)) = 180

\* 19:00, the last step within a shift-day
C27_IntoNight ==
    /\ shiftInfo = <<getUkShiftInfo(now)>>
    /\ shiftInfo[1].currentShift = "Night"
    /\ getUkShiftInfo(now - 1).currentShift = "Day"
    /\ getUkShiftInfo(now - 1).shiftDayIsoDate = shiftInfo[1].shiftDayIsoDate

(***************************************************************************)
(* C28: when the invocations of /update for the guild have finished, each  *)
(* with its add or remove, the persisted accumulator holds every one of    *)
(* their adjustments, whether or not they overlapped.                      *)
(***************************************************************************)
NoneInFlight == \A c \in Interactions : calls[c].pc \in {"idle", "replied", "threw"}

C28_NoLostUpdate ==
    NoneInFlight /\ fundingState # <<>>
    => fundingState[1].row.manualAdjustmentPence = ledger.removed - ledger.added

\* both invocations loaded the empty state; a wrote -2500, then b wrote 1013
\* over it
C28_Witness ==
    /\ \A c \in Interactions : calls[c].pc = "replied"
    /\ calls["a"].manualAdjustmentPence = -2500
    /\ calls["b"].manualAdjustmentPence = 1013
    /\ ledger = Ledger(2500, 1013)
    /\ fundingState[1].lastImageMessageId = calls["b"].id
    /\ fundingState[1].row.manualAdjustmentPence = 1013

\* an invocation that loads after the other has written keeps both
C28_OneAfterTheOther ==
    /\ \A c \in Interactions : calls[c].pc = "replied"
    /\ ledger = Ledger(2500, 1013)
    /\ fundingState[1].row.manualAdjustmentPence = -1487

(***************************************************************************)
(* C29: an /update that ends with the missing-end-date reply leaves the    *)
(* guild's persisted state (accumulator, end date, last parsed values and  *)
(* total) as findUnique returned it at the start of the invocation.        *)
(***************************************************************************)
EndedWithoutEndDate ==
    updPc = "idle" /\ reply # <<>> /\ reply[1].kind = "missingEndDate"

C29_FailedUpdateWritesNothing == EndedWithoutEndDate => fundingState = locals.existing

\* the same failing /update with add: 25, twice: the accumulator is at -5000
C29_Witness ==
    /\ EndedWithoutEndDate
    /\ updates = 2
    /\ options.addAmount = Some(25000)
    /\ ledger = Ledger(5000, 0)
    /\ locals.existing # <<>>
    /\ locals.existing[1].endDate = Null
    /\ locals.existing[1].manualAdjustmentPence = -2500
    /\ fundingState[1].manualAdjustmentPence = -5000

\* the first /update for the guild fails and has created the guild's row
C29_RowCreated ==
    /\ EndedWithoutEndDate
    /\ locals.existing = <<>>
    /\ fundingState # <<>>
    /\ fundingState[1].lastParsedTotalPence = 10000

(***************************************************************************)
(* C30: once the initialization of the engine has failed, the rejected     *)
(* worker promise stays: no engine is created again, and every             *)
(* recognizeImage call fails with the initialization error in each of its  *)
(* passes, so no call combines words, parses, writes or replies.           *)
(***************************************************************************)
InitError == <<"init">>

FailsWithInitError(call) ==
    /\ call.pc \in {"idle", "loaded", "passes", "threw"}
    /\ \A p \in 1..Len(call.pass) : call.pass[p] \in {Pass("getWorker", Null), Pass("threw", InitError)}
    /\ call.rejected \in {Null, Some(InitError)}
    /\ call.outcome \in {Null, Some([kind |-> "error", error |-> InitError])}
    /\ call.pc = "threw" => call.outcome # Null
    /\ call.words = Null /\ call.parsed = Null

InitFailed == workerPromise = Some("rejected")

C30_FailedInitStaysCached ==
    /\ [](InitFailed => /\ workersCreated = 1
                        /\ fundingState = <<>>
                        /\ \A c \in Interactions : FailsWithInitError(calls[c]))
    /\ [][InitFailed => InitFailed' /\ workersCreated' = workersCreated]_vars

\* the second call of interaction a, started after its first call had ended
\* with the initialization error, has ended with that error too
C30_Witness ==
    /\ InitFailed
    /\ workersCreated = 1
    /\ calls["a"].id = 2
    /\ calls["a"].pc = "threw"
    /\ \A p \in 1..Len(passes) : calls["a"].pass[p] = Pass("threw", InitError)
    /\ calls["a"].outcome = Some([kind |-> "error", error |-> InitError])
    /\ calls["b"].pc = "idle"
====
